---------------------------- MODULE Spec2Model ----------------------------
(***************************************************************************)
(* A model of the stratus executor / storage substrate:                    *)
(*   src/src/eth/executor.rs                         EthExecutor           *)
(*   src/src/eth/storage/stratus_storage.rs          StratusStorage        *)
(*   src/src/eth/storage/inmemory/inmemory_temporary.rs                    *)
(*                                                   temporary storage     *)
(* The EVM, the miner and the permanent storage are pluggable interfaces   *)
(* whose implementations are not part of the sources; they are modelled    *)
(* from their documented contracts.                                        *)
(*                                                                         *)
(* Every caller (an async task calling the executor) is a process with a   *)
(* program counter.  One action is one atomic step of a caller or of an    *)
(* EVM worker thread.  A step is cut at every operation on shared state    *)
(* (queue, locks, the two storages, the notifiers); operations that only   *)
(* touch the caller's own data are merged into the neighbouring step.      *)
(***************************************************************************)
EXTENDS Naturals, Sequences, FiniteSets, TLC

(***************************************************************************)
(* Bounds of the model.                                                    *)
(***************************************************************************)
\* calls of the executor's public operations made in one run
MaxCalls == 2
\* transactions in an external block
MaxBlockTxs == 2

\* concurrent callers (async tasks) and EVM worker threads
Callers == {1, 2}
Workers == {1, 2}

(***************************************************************************)
(* Primitives.                                                             *)
(***************************************************************************)
\* Address::ZERO
ZERO == 0
\* the address caller c signs with, and the one contract all transactions call
SignerOf(c) == c
Contract == Cardinality(Callers) + 1
\* the one storage slot of the contract the transactions write
SlotIdx == "s0"

\* Option<T>
None == <<>>
Some(x) == <<x>>
IsSome(o) == o /= None
Unwrap(o) == o[1]

\* StoragePointInTime
Present == [kind |-> "Present"]
Past(n) == [kind |-> "Past", number |-> n]

\* ExecutionValueChange<T>: an (original, modified) pair, each possibly unset
NoChange == [original |-> None, modified |-> None]
Change(o, m) == [original |-> Some(o), modified |-> Some(m)]
\* ExecutionValueChange::take: the modified value, when set
Take(vc) == vc.modified

\* Account::new_empty(address), Account::default() with the address set
NewEmptyAccount(address) ==
    [address |-> address, nonce |-> 0, balance |-> 0, bytecode |-> None]
\* Slot { index, ..Default::default() }
DefaultSlot(index) == [index |-> index, value |-> 0]

\* the map m with key k set to v (HashMap::insert)
Insert(m, k, v) == [x \in DOMAIN m \cup {k} |-> IF x = k THEN v ELSE m[x]]

(***************************************************************************)
(* Temporary storage: InMemoryTemporaryStorageState.                       *)
(***************************************************************************)
EmptyTemp ==
    [external_block |-> None,
     tx_executions |-> <<>>,
     accounts |-> <<>>,
     active_block_number |-> None]

\* a reset that forgets to clear the pending executions
TempResetKeepingExecutions(t) ==
    [external_block |-> None,
     tx_executions |-> t.tx_executions,
     accounts |-> <<>>,
     active_block_number |-> None]

\* InMemoryTemporaryStorageState::reset
TempReset(t) ==
    [external_block |-> None,
     tx_executions |-> <<>>,
     accounts |-> <<>>,
     active_block_number |-> None]

\* InMemoryTemporaryStorage::remove_executions_before: nothing for index 0,
\* otherwise tx_executions.drain(..index - 1), which takes the first
\* index - 1 executions out
TempRemoveExecutionsBefore(t, index) ==
    IF index = 0 THEN t
    ELSE [t EXCEPT !.tx_executions = SubSeq(@, index, Len(@))]

\* InMemoryTemporaryAccount::new
NewTempAccount(address) == [info |-> NewEmptyAccount(address), slots |-> <<>>]

\* the body of save_execution's loop for one ExecutionAccountChanges
MergeChange(accounts, change) ==
    LET account == IF change.address \in DOMAIN accounts
                   THEN accounts[change.address]
                   ELSE NewTempAccount(change.address)
        info1 == IF IsSome(Take(change.nonce))
                 THEN [account.info EXCEPT !.nonce = Unwrap(Take(change.nonce))]
                 ELSE account.info
        info2 == IF IsSome(Take(change.balance))
                 THEN [info1 EXCEPT !.balance = Unwrap(Take(change.balance))]
                 ELSE info1
        \* Some(Some(bytecode)): a set change to a present bytecode
        info3 == IF IsSome(Take(change.bytecode)) /\ IsSome(Unwrap(Take(change.bytecode)))
                 THEN [info2 EXCEPT !.bytecode = Unwrap(Take(change.bytecode))]
                 ELSE info2
        touched == {i \in DOMAIN change.slots : IsSome(Take(change.slots[i]))}
        slots == [i \in DOMAIN account.slots \cup touched |->
                    IF i \in touched
                    THEN [index |-> i, value |-> Unwrap(Take(change.slots[i]))]
                    ELSE account.slots[i]]
    IN Insert(accounts, change.address, [info |-> info3, slots |-> slots])

RECURSIVE MergeChanges(_, _, _)
MergeChanges(accounts, changes, todo) ==
    IF todo = {} THEN accounts
    ELSE LET a == CHOOSE x \in todo : TRUE
         IN MergeChanges(MergeChange(accounts, changes[a]), changes, todo \ {a})

\* InMemoryTemporaryStorage::save_execution (save_account_changes of the facade)
SaveExecution(t, tx) ==
    [t EXCEPT !.accounts = MergeChanges(t.accounts, tx.execution.changes,
                                        DOMAIN tx.execution.changes),
              !.tx_executions = Append(t.tx_executions, tx)]

\* InMemoryTemporaryStorage::read_account: the overlay view only
TempReadAccount(t, address) ==
    IF address \in DOMAIN t.accounts THEN Some(t.accounts[address].info) ELSE None

\* InMemoryTemporaryStorage::read_slot: the overlay view only
TempReadSlot(t, address, index) ==
    IF address \notin DOMAIN t.accounts THEN None
    ELSE IF index \in DOMAIN t.accounts[address].slots
         THEN Some(t.accounts[address].slots[index])
         ELSE None

\* the fields of an account that carry an original value in a change
Fields == {"nonce", "balance", SlotIdx}

\* the ExecutionValueChange an ExecutionAccountChanges holds for a field
FieldChange(change, field) ==
    IF field = "nonce" THEN change.nonce
    ELSE IF field = "balance" THEN change.balance
    ELSE IF field \in DOMAIN change.slots THEN change.slots[field] ELSE NoChange

\* the overlay's current value of a field of an account it holds
TempCurrent(account, field) ==
    IF field = "nonce" THEN Some(account.info.nonce)
    ELSE IF field = "balance" THEN Some(account.info.balance)
    ELSE IF field \in DOMAIN account.slots THEN Some(account.slots[field].value)
    ELSE None

\* TemporaryStorage::check_conflicts: the (address, field) pairs of the
\* execution whose original value differs from the overlay's current value
TempConflicts(t, execution) ==
    {af \in (DOMAIN execution.changes \cap DOMAIN t.accounts) \X Fields :
        LET vc == FieldChange(execution.changes[af[1]], af[2])
            cur == TempCurrent(t.accounts[af[1]], af[2])
        IN IsSome(vc.original) /\ IsSome(cur) /\ vc.original /= cur}

\* Some(conflicts) when there is one, None when the set is empty
CheckConflicts(t, execution) ==
    IF TempConflicts(t, execution) = {} THEN None
    ELSE Some(TempConflicts(t, execution))

(***************************************************************************)
(* Permanent storage (the PermanentStorage interface): the block counter,  *)
(* the saved blocks in the order they were saved, and for every account    *)
(* field the history of its values, each stamped with the block that wrote *)
(* it.                                                                     *)
(***************************************************************************)
GenesisBlock == [number |-> 0, transactions |-> <<>>]

EmptyPerm ==
    [block_number |-> 0,
     blocks |-> <<GenesisBlock>>,
     accounts |-> <<>>]

NewPermAccount == [nonce |-> <<>>, balance |-> <<>>, bytecode |-> <<>>, slots |-> <<>>]

\* the value a history holds at a point in time: the last one written
\* (Present), or the last one written by a block numbered at most n (Past(n))
RECURSIVE ValueAt(_, _)
ValueAt(history, pit) ==
    IF history = <<>> THEN None
    ELSE LET last == history[Len(history)]
         IN IF pit.kind = "Present" \/ last.number <= pit.number
            THEN Some(last.value)
            ELSE ValueAt(SubSeq(history, 1, Len(history) - 1), pit)

OrElse(o, d) == IF IsSome(o) THEN Unwrap(o) ELSE d

\* PermanentStorage::read_account
PermReadAccount(p, address, pit) ==
    IF address \notin DOMAIN p.accounts THEN None
    ELSE LET acc == p.accounts[address]
         IN IF /\ ValueAt(acc.nonce, pit) = None
               /\ ValueAt(acc.balance, pit) = None
               /\ ValueAt(acc.bytecode, pit) = None
               /\ \A i \in DOMAIN acc.slots : ValueAt(acc.slots[i], pit) = None
            THEN None
            ELSE Some([address |-> address,
                       nonce |-> OrElse(ValueAt(acc.nonce, pit), 0),
                       balance |-> OrElse(ValueAt(acc.balance, pit), 0),
                       bytecode |-> OrElse(ValueAt(acc.bytecode, pit), None)])

\* PermanentStorage::read_slot
PermReadSlot(p, address, index, pit) ==
    IF address \notin DOMAIN p.accounts THEN None
    ELSE IF index \notin DOMAIN p.accounts[address].slots THEN None
    ELSE LET v == ValueAt(p.accounts[address].slots[index], pit)
         IN IF IsSome(v) THEN Some([index |-> index, value |-> Unwrap(v)]) ELSE None

\* PermanentStorage::read_current_block_number
ReadCurrentBlockNumber(p) == p.block_number

\* an increment whose new value is not stored
IncrementBlockNumberLost(p) == p

\* StratusStorage::increment_block_number: atomic, the new value is
\* p.block_number of the result
IncrementBlockNumber(p) == [p EXCEPT !.block_number = p.block_number + 1]

\* one ExecutionValueChange after another: the first original, the last
\* modified value
Compact(vc1, vc2) ==
    [original |-> IF IsSome(vc1.original) \/ IsSome(vc1.modified)
                  THEN vc1.original ELSE vc2.original,
     modified |-> IF IsSome(vc2.modified) THEN vc2.modified ELSE vc1.modified]

CompactChange(c1, c2) ==
    [address |-> c1.address,
     nonce |-> Compact(c1.nonce, c2.nonce),
     balance |-> Compact(c1.balance, c2.balance),
     bytecode |-> Compact(c1.bytecode, c2.bytecode),
     slots |-> [i \in DOMAIN c1.slots \cup DOMAIN c2.slots |->
                  Compact(FieldChange(c1, i), FieldChange(c2, i))]]

\* the changes of a block's transactions, in order, merged per address
RECURSIVE CompactAccountChanges(_)
CompactAccountChanges(transactions) ==
    IF transactions = <<>> THEN <<>>
    ELSE LET n == Len(transactions)
             before == CompactAccountChanges(SubSeq(transactions, 1, n - 1))
             last == transactions[n].execution.changes
         IN [a \in DOMAIN before \cup DOMAIN last |->
               IF a \notin DOMAIN last THEN before[a]
               ELSE IF a \notin DOMAIN before THEN last[a]
               ELSE CompactChange(before[a], last[a])]

\* the history of an account field, empty when nothing wrote it
PermHistory(p, address, field) ==
    LET acc == IF address \in DOMAIN p.accounts THEN p.accounts[address]
               ELSE NewPermAccount
    IN IF field = "nonce" THEN acc.nonce
       ELSE IF field = "balance" THEN acc.balance
       ELSE IF field \in DOMAIN acc.slots THEN acc.slots[field] ELSE <<>>

\* the current (Present) value of an account field, the default when absent
PermCurrent(p, address, field) ==
    OrElse(ValueAt(PermHistory(p, address, field), Present), 0)

\* the conflicts save_block finds: fields whose declared original value is
\* not the value permanent storage holds
PermConflicts(p, block) ==
    LET changes == CompactAccountChanges(block.transactions)
    IN {af \in (DOMAIN changes) \X Fields :
          LET vc == FieldChange(changes[af[1]], af[2])
          IN IsSome(vc.original) /\ Unwrap(vc.original) /= PermCurrent(p, af[1], af[2])}

Stamp(history, vc, number) ==
    IF IsSome(Take(vc)) THEN Append(history, [number |-> number, value |-> Unwrap(Take(vc))])
    ELSE history

\* the account histories after the changes of a saved block
PermApply(p, block) ==
    LET changes == CompactAccountChanges(block.transactions)
    IN [a \in DOMAIN p.accounts \cup DOMAIN changes |->
          IF a \notin DOMAIN changes THEN p.accounts[a]
          ELSE LET acc == IF a \in DOMAIN p.accounts THEN p.accounts[a] ELSE NewPermAccount
                   c == changes[a]
               IN [nonce |-> Stamp(acc.nonce, c.nonce, block.number),
                   balance |-> Stamp(acc.balance, c.balance, block.number),
                   bytecode |-> Stamp(acc.bytecode, c.bytecode, block.number),
                   slots |-> [i \in DOMAIN acc.slots \cup DOMAIN c.slots |->
                                Stamp(IF i \in DOMAIN acc.slots THEN acc.slots[i] ELSE <<>>,
                                      FieldChange(c, i), block.number)]]]

\* the results of save_block and commit
Ok == [ok |-> TRUE]
ErrConflict(conflicts) == [ok |-> FALSE, error |-> "Conflict", conflicts |-> conflicts]
ErrOther == [ok |-> FALSE, error |-> "Other"]

\* PermanentStorage::save_block: atomic; a block with a conflict, or one the
\* storage fails to write (fault), leaves the storage as it was
SaveBlockResult(p, block, fault) ==
    IF fault THEN ErrOther
    ELSE IF PermConflicts(p, block) /= {} THEN ErrConflict(PermConflicts(p, block))
    ELSE Ok

SaveBlock(p, block, fault) ==
    IF SaveBlockResult(p, block, fault).ok
    THEN [p EXCEPT !.blocks = Append(p.blocks, block),
                   !.accounts = PermApply(p, block)]
    ELSE p

(***************************************************************************)
(* The layered storage facade: StratusStorage.                             *)
(***************************************************************************)
\* a facade that asks permanent storage before temporary storage
ReadAccountPermFirst(t, p, address, pit) ==
    IF IsSome(PermReadAccount(p, address, pit))
    THEN Unwrap(PermReadAccount(p, address, pit))
    ELSE IF IsSome(TempReadAccount(t, address)) THEN Unwrap(TempReadAccount(t, address))
         ELSE NewEmptyAccount(address)

\* StratusStorage::read_account: temporary, else permanent, else default
ReadAccount(t, p, address, pit) ==
    IF IsSome(TempReadAccount(t, address)) THEN Unwrap(TempReadAccount(t, address))
    ELSE IF IsSome(PermReadAccount(p, address, pit))
         THEN Unwrap(PermReadAccount(p, address, pit))
         ELSE NewEmptyAccount(address)

\* StratusStorage::read_slot: temporary, else permanent, else default
ReadSlot(t, p, address, index, pit) ==
    IF IsSome(TempReadSlot(t, address, index)) THEN Unwrap(TempReadSlot(t, address, index))
    ELSE IF IsSome(PermReadSlot(p, address, index, pit))
         THEN Unwrap(PermReadSlot(p, address, index, pit))
         ELSE DefaultSlot(index)

\* BlockSelection
Latest == [kind |-> "Latest"]
Earliest == [kind |-> "Earliest"]
Number(n) == [kind |-> "Number", number |-> n]
Hash(h) == [kind |-> "Hash", hash |-> h]

\* the hash of a block's header: its own for every block
BlockHash(block) ==
    <<block.number, [i \in DOMAIN block.transactions |-> block.transactions[i].input.hash]>>

\* PermanentStorage::read_block for the Earliest and Hash selections: the
\* block numbered 0, the block with the hash
ReadBlock(p, selection) ==
    LET found == {i \in DOMAIN p.blocks :
                    IF selection.kind = "Earliest" THEN p.blocks[i].number = 0
                    ELSE BlockHash(p.blocks[i]) = selection.hash}
    IN IF found = {} THEN None ELSE Some(p.blocks[CHOOSE i \in found : TRUE])

\* a translation that takes the number of a Number selection as it is
TranslateUnclamped(p, selection) ==
    IF selection.kind = "Latest" THEN [ok |-> TRUE, value |-> Present]
    ELSE IF selection.kind = "Number" THEN [ok |-> TRUE, value |-> Past(selection.number)]
    ELSE IF IsSome(ReadBlock(p, selection))
         THEN [ok |-> TRUE, value |-> Past(Unwrap(ReadBlock(p, selection)).number)]
         ELSE [ok |-> FALSE, error |-> "BlockNotFound"]

\* StratusStorage::translate_to_point_in_time
TranslateToPointInTime(p, selection) ==
    IF selection.kind = "Latest" THEN [ok |-> TRUE, value |-> Present]
    ELSE IF selection.kind = "Number"
    THEN IF selection.number <= ReadCurrentBlockNumber(p)
         THEN [ok |-> TRUE, value |-> Past(selection.number)]
         ELSE [ok |-> TRUE, value |-> Past(ReadCurrentBlockNumber(p))]
    ELSE IF IsSome(ReadBlock(p, selection))
         THEN [ok |-> TRUE, value |-> Past(Unwrap(ReadBlock(p, selection)).number)]
         ELSE [ok |-> FALSE, error |-> "BlockNotFound"]

(***************************************************************************)
(* The EVM (the Evm interface) and the miner (BlockMiner).                 *)
(***************************************************************************)
\* EvmInput::from_eth_transaction
EvmInputFromTransaction(tx) ==
    [caller |-> tx.signer, contract |-> Some(Contract), data |-> tx.input,
     point_in_time |-> Present]

\* Evm::execute for a transaction that stores its data in the contract's
\* slot: it reads the caller's nonce and the slot through the facade and
\* declares what it read as the original values of its changes; a
\* transaction that the contract's own address signs changes its nonce only
EvmExecute(t, p, input) ==
    LET caller == ReadAccount(t, p, input.caller, input.point_in_time)
        slot == ReadSlot(t, p, Contract, SlotIdx, input.point_in_time)
    IN [result |-> "success",
        gas |-> 1,
        logs |-> <<[address |-> Contract, data |-> input.data]>>,
        changes |->
            (input.caller :> [address |-> input.caller,
                              nonce |-> Change(caller.nonce, caller.nonce + 1),
                              balance |-> NoChange,
                              bytecode |-> NoChange,
                              slots |-> <<>>])
            @@ (Contract :> [address |-> Contract,
                             nonce |-> NoChange,
                             balance |-> NoChange,
                             bytecode |-> NoChange,
                             slots |-> (SlotIdx :> Change(slot.value, input.data))])]

\* TransactionMined
MinedTransaction(input, execution, index, number) ==
    [input |-> input, execution |-> execution,
     transaction_index |-> index, block_number |-> number]

\* BlockMiner::mine_with_one_transaction: the block numbered with the value
\* increment_block_number returned, holding the one mined transaction
MineWithOneTransaction(number, input, execution) ==
    [number |-> number,
     transactions |-> <<MinedTransaction(input, execution, 0, number)>>]

\* BlockMiner::mine_with_no_transactions
MineWithNoTransactions(number) == [number |-> number, transactions |-> <<>>]

(***************************************************************************)
(* Inputs.                                                                 *)
(***************************************************************************)
\* the hash of the transaction at position i of call number call (0 for the
\* transaction of a transact call); every submitted transaction has its own
HashOf(call, i) == call * (MaxBlockTxs + 1) + i

\* TransactionInput: a transaction that stores its own hash in the slot
TransactionInput(hash, signer) ==
    [hash |-> hash, signer |-> signer, to |-> Some(Contract), input |-> hash]

\* what the upstream node's receipt says of a transaction
ReceiptKinds == {"match", "mismatch", "missing"}

\* ExternalBlock: n transactions, the i-th signed by SignerOf(i)
ExternalBlock(call, number, n) ==
    [number |-> number,
     transactions |-> [i \in 1..n |-> TransactionInput(HashOf(call, i), i)]]

\* ExternalReceipt of a transaction: the logs upstream recorded, which are
\* those of the local EVM ("match") or differ in their data ("mismatch")
ExternalReceipt(tx, kind) ==
    [hash |-> tx.hash, status |-> "success", gas |-> 1,
     logs |-> <<[address |-> Contract,
                 data |-> IF kind = "match" THEN tx.input ELSE 0]>>]

\* the receipts map handed to import: every transaction but the one at
\* position at has a matching receipt; that one's matches, differs, or is
\* missing
Receipts(block, at, kind) ==
    LET n == Len(block.transactions)
        have == IF kind = "missing" THEN (1..n) \ {at} ELSE 1..n
    IN [h \in {block.transactions[i].hash : i \in have} |->
          LET i == CHOOSE j \in have : block.transactions[j].hash = h
          IN ExternalReceipt(block.transactions[i],
                             IF i = at THEN kind ELSE "match")]

\* the positions of a block of n transactions at which the receipt may be
\* off: any of them, or the last only
Positions(n, any) == IF any THEN 1..n ELSE {n}

\* Execution::compare_with_receipt: status, gas used and the ordered logs
CompareWithReceipt(execution, receipt) ==
    /\ execution.result = receipt.status
    /\ execution.gas = receipt.gas
    /\ execution.logs = receipt.logs

(***************************************************************************)
(* State.                                                                  *)
(***************************************************************************)
VARIABLES
    pc,             \* pc[c]: where caller c is in the operation it called
    local,          \* local[c]: the variables of caller c's call
    evm_queue,      \* the crossbeam channel of EvmTasks (evm_tx / evm_rx)
    worker,         \* worker[w]: the task EVM thread w took and is executing
    reply,          \* reply[c]: the one-shot reply channel of c's submission
    miner_lock,     \* the holder of Mutex<BlockMiner>
    temp,           \* InMemoryTemporaryStorageState
    perm,           \* the permanent storage
    block_notifier, \* the blocks sent to block_notifier, in order
    log_notifier,   \* the logs sent to log_notifier, in order
    calls           \* calls started so far

vars == <<pc, local, evm_queue, worker, reply, miner_lock, temp, perm,
          block_notifier, log_notifier, calls>>

\* the variables of a call that has not started
NoCall ==
    [op |-> "none", tx |-> None, external_block |-> None, receipts |-> <<>>,
     idx |-> 0, executions |-> <<>>, execution |-> None, block |-> None,
     saved |-> None, result |-> None, increments |-> 0, saves |-> 0, sent |-> 0]

Init ==
    /\ pc = [c \in Callers |-> "idle"]
    /\ local = [c \in Callers |-> NoCall]
    /\ evm_queue = <<>>
    /\ worker = [w \in Workers |-> None]
    /\ reply = [c \in Callers |-> None]
    /\ miner_lock = None
    /\ temp = EmptyTemp
    /\ perm = EmptyPerm
    /\ block_notifier = <<>>
    /\ log_notifier = <<>>
    /\ calls = 0

\* a caller may start a call
CanCall(c) == pc[c] \in {"idle", "done"} /\ calls < MaxCalls

\* the results a call returns
RetOk(value) == Some([ok |-> TRUE, value |-> value])
RetErr(error) == Some([ok |-> FALSE, error |-> error])

(***************************************************************************)
(* The EVM worker pool: spawn_background_evms, execute_in_evm.             *)
(***************************************************************************)
\* tasks that all carry the sender of one reply channel, shared by the callers
EvmTaskSharedReply(c, input) ==
    [caller |-> CHOOSE d \in Callers : \A e \in Callers : d <= e, input |-> input]

\* execute_in_evm, first half: a fresh one-shot channel, the task sent
EvmTask(c, input) == [caller |-> c, input |-> input]

\* an EVM thread that a panic of evm.execute has ended
Dead == Some([caller |-> 0])

IsDead(w) == IsSome(worker[w]) /\ Unwrap(worker[w]).caller = 0

\* the worker is executing a task
Busy(w) == IsSome(worker[w]) /\ Unwrap(worker[w]).caller \in Callers

\* every EVM thread has ended, and with them every receiver of the task
\* queue: evm_tx.send fails
QueueClosed == \A w \in Workers : IsDead(w)

\* self.evm_tx.send((evm_input, execution_tx))? for the call variables l of
\* caller c: the task is sent and the caller waits at pc value waiting, or
\* the send fails and the call returns the error.
\* <<pc, call variables, tasks sent>>
Submit(c, l, input, waiting) ==
    IF QueueClosed THEN <<"done", [l EXCEPT !.result = RetErr("ChannelClosed")], <<>>>>
    ELSE <<waiting, l, <<EvmTask(c, input)>>>>

\* evm_rx.recv(): a free worker takes the next task of the queue (the workers
\* are interchangeable: of the free ones, the first is taken to be the one)
WorkerRecv(w) ==
    /\ worker[w] = None
    /\ \A v \in Workers : v < w => IsSome(worker[v])
    /\ evm_queue /= <<>>
    /\ worker' = [worker EXCEPT ![w] = Some(Head(evm_queue))]
    /\ evm_queue' = Tail(evm_queue)
    /\ UNCHANGED <<pc, local, reply, miner_lock, temp, perm, block_notifier,
                   log_notifier, calls>>

\* the pc values at which a caller awaits execution_rx
AwaitingEvm == {"t_evm", "c_evm", "io_evm", "im_evm"}

\* the data of the EvmInput whose execution caller c awaits
Awaited(c) ==
    IF local[c].op \in {"import", "import_offline"}
    THEN Unwrap(local[c].external_block).transactions[local[c].idx].input
    ELSE Unwrap(local[c].tx).input

\* the receiver of the task's one-shot reply channel is still there: the
\* caller that sent the task awaits the execution of this very input
ReceiverAlive(task) ==
    /\ pc[task.caller] \in AwaitingEvm
    /\ task.input.data = Awaited(task.caller)

\* a worker that ends its thread when the result cannot be sent
WorkerExecuteLeaving(w) ==
    /\ Busy(w)
    /\ LET task == Unwrap(worker[w])
       IN IF ReceiverAlive(task)
          THEN /\ reply' = [reply EXCEPT ![task.caller] =
                             Some([ok |-> TRUE,
                                   execution |-> EvmExecute(temp, perm, task.input)])]
               /\ worker' = [worker EXCEPT ![w] = None]
          ELSE /\ UNCHANGED reply
               /\ worker' = [worker EXCEPT ![w] = Dead]
    /\ UNCHANGED <<pc, local, evm_queue, miner_lock, temp, perm, block_notifier,
                   log_notifier, calls>>

\* tx.send(evm.execute(input)): the worker executes the task against the
\* storage as it is now and sends the result on the task's reply channel;
\* when the receiver is gone the send fails, the error is logged and the
\* result dropped
WorkerExecute(w) ==
    /\ Busy(w)
    /\ LET task == Unwrap(worker[w])
       IN IF ReceiverAlive(task)
          THEN reply' = [reply EXCEPT ![task.caller] =
                           Some([ok |-> TRUE,
                                 execution |-> EvmExecute(temp, perm, task.input)])]
          ELSE UNCHANGED reply
    /\ worker' = [worker EXCEPT ![w] = None]
    /\ UNCHANGED <<pc, local, evm_queue, miner_lock, temp, perm, block_notifier,
                   log_notifier, calls>>

\* the future of a call that awaits execution_rx is dropped: the receiver of
\* the reply channel goes with it, and with it a result already sent; sent
\* keeps whether the task was still to be executed
Cancel(c) ==
    /\ pc[c] \in AwaitingEvm
    /\ pc' = [pc EXCEPT ![c] = "done"]
    /\ local' = [local EXCEPT ![c].op = "cancelled",
                              ![c].sent = IF reply[c] = None THEN 1 ELSE 0]
    /\ reply' = [reply EXCEPT ![c] = None]
    /\ UNCHANGED <<evm_queue, worker, miner_lock, temp, perm, block_notifier,
                   log_notifier, calls>>

\* the reply channels after the senders of the tasks were dropped: their
\* receivers see a closed channel
CloseReplies(tasks) ==
    [c \in Callers |->
        IF \E i \in DOMAIN tasks : tasks[i].caller = c
        THEN Some([ok |-> FALSE, error |-> "RecvError"])
        ELSE reply[c]]

\* evm.execute(input) panics: the thread ends and drops the task with the
\* sender of its reply channel; when it was the last thread, the queue has
\* no receiver left and the tasks in it are dropped too
WorkerPanic(w) ==
    /\ Busy(w)
    /\ worker' = [worker EXCEPT ![w] = Dead]
    /\ IF \A v \in Workers \ {w} : IsDead(v)
       THEN /\ reply' = CloseReplies(<<Unwrap(worker[w])>> \o evm_queue)
            /\ evm_queue' = <<>>
       ELSE /\ reply' = CloseReplies(<<Unwrap(worker[w])>>)
            /\ UNCHANGED evm_queue
    /\ UNCHANGED <<pc, local, miner_lock, temp, perm, block_notifier,
                   log_notifier, calls>>

(***************************************************************************)
(* StratusStorage::commit, first half: perm.save_block.                    *)
(***************************************************************************)
\* fault: whether this save_block fails with an error that is no conflict
CommitSaveBlock(c, fault) ==
    /\ pc[c] = "save_block"
    /\   LET block == Unwrap(local[c].block)
             result == SaveBlockResult(perm, block, fault)
         IN /\ perm' = SaveBlock(perm, block, fault)
            /\ local' = [local EXCEPT ![c].saved = Some(result),
                                      ![c].saves = @ + (IF result.ok THEN 1 ELSE 0)]
    /\ pc' = [pc EXCEPT ![c] = "reset_temp"]
    /\ UNCHANGED <<evm_queue, worker, reply, miner_lock, temp, block_notifier,
                   log_notifier, calls>>

\* StratusStorage::commit, second half: reset_temp, then the result of
\* save_block is returned
CommitResult(c) == Unwrap(local[c].saved)

\* a commit that resets temporary storage only after a successful save_block
CommitResetTempOnOk(t, result) == IF result.ok THEN TempReset(t) ELSE t

\* self.reset_temp().await? of commit: whatever save_block returned
CommitResetTemp(t, result) == TempReset(t)

(***************************************************************************)
(* EthExecutor::transact and mine_and_execute_transaction.                 *)
(***************************************************************************)
\* a validation that lets every signer through
SignerNeverZero(tx) == FALSE

\* transaction.signer.is_zero()
SignerIsZero(tx) == tx.signer = ZERO

\* a match that takes a conflict for a success
CommitAcceptedOrConflict(result) == result.ok \/ result.error = "Conflict"

\* the arm of the match on commit's result that leaves the loop
CommitAccepted(result) == result.ok

\* a match without the arm for conflicts: they fall to the error arm
CommitNeverRetried(result) == FALSE

\* the arm of the match on commit's result that runs the loop again
CommitRetried(result) == ~result.ok /\ result.error = "Conflict"

\* transact up to the first await of the loop: the signer is validated, the
\* EvmInput is built and sent to the worker pool
TransactStart(c, signer) ==
    /\ CanCall(c)
    /\ calls' = calls + 1
    /\ LET tx == TransactionInput(HashOf(calls + 1, 0), signer)
           call == [NoCall EXCEPT !.op = "transact", !.tx = Some(tx)]
       IN IF SignerIsZero(tx)
          THEN /\ local' = [local EXCEPT ![c] =
                              [call EXCEPT !.result = RetErr("ZeroSignerRejected")]]
               /\ pc' = [pc EXCEPT ![c] = "done"]
               /\ UNCHANGED evm_queue
          ELSE LET next == Submit(c, call, EvmInputFromTransaction(tx), "t_evm")
               IN /\ local' = [local EXCEPT ![c] = next[2]]
                  /\ pc' = [pc EXCEPT ![c] = next[1]]
                  /\ evm_queue' = evm_queue \o next[3]
    /\ UNCHANGED <<worker, reply, miner_lock, temp, perm, block_notifier,
                   log_notifier>>

\* a loop that takes a failed execute_in_evm for one more reason to run
\* again
TransactCheckConflictsRetrying(c) ==
    /\ pc[c] = "t_evm"
    /\ IsSome(reply[c])
    /\ reply' = [reply EXCEPT ![c] = None]
    /\ LET r == Unwrap(reply[c])
           tx == Unwrap(local[c].tx)
       IN IF ~r.ok
          THEN /\ UNCHANGED <<local, pc>>
               /\ evm_queue' = Append(evm_queue, EvmTask(c, EvmInputFromTransaction(tx)))
          ELSE IF IsSome(CheckConflicts(temp, r.execution))
          THEN LET next == Submit(c, local[c], EvmInputFromTransaction(tx), "t_evm")
               IN /\ local' = [local EXCEPT ![c] = next[2]]
                  /\ pc' = [pc EXCEPT ![c] = next[1]]
                  /\ evm_queue' = evm_queue \o next[3]
          ELSE /\ local' = [local EXCEPT ![c].execution = Some(r.execution)]
               /\ pc' = [pc EXCEPT ![c] = "t_mine"]
               /\ UNCHANGED evm_queue
    /\ UNCHANGED <<worker, miner_lock, temp, perm, block_notifier, log_notifier,
                   calls>>

\* a loop that goes on to mine whatever check_conflicts reports
TransactCheckConflictsMiningAnyway(c) ==
    /\ pc[c] = "t_evm"
    /\ IsSome(reply[c])
    /\ reply' = [reply EXCEPT ![c] = None]
    /\ LET r == Unwrap(reply[c])
           tx == Unwrap(local[c].tx)
       IN IF ~r.ok
          THEN /\ local' = [local EXCEPT ![c].result = RetErr("EvmError")]
               /\ pc' = [pc EXCEPT ![c] = "done"]
               /\ UNCHANGED evm_queue
          ELSE IF FALSE
          THEN UNCHANGED <<local, pc, evm_queue>>
          ELSE /\ local' = [local EXCEPT ![c].execution = Some(r.execution)]
               /\ pc' = [pc EXCEPT ![c] = "t_mine"]
               /\ UNCHANGED evm_queue
    /\ UNCHANGED <<worker, miner_lock, temp, perm, block_notifier, log_notifier,
                   calls>>

\* the execution arrives and storage.check_conflicts is asked; on a conflict
\* the loop continues: the transaction is sent to the worker pool again
TransactCheckConflicts(c) ==
    /\ pc[c] = "t_evm"
    /\ IsSome(reply[c])
    /\ reply' = [reply EXCEPT ![c] = None]
    /\ LET r == Unwrap(reply[c])
           tx == Unwrap(local[c].tx)
       IN IF ~r.ok
          THEN /\ local' = [local EXCEPT ![c].result = RetErr("EvmError")]
               /\ pc' = [pc EXCEPT ![c] = "done"]
               /\ UNCHANGED evm_queue
          ELSE IF IsSome(CheckConflicts(temp, r.execution))
          THEN LET next == Submit(c, local[c], EvmInputFromTransaction(tx), "t_evm")
               IN /\ local' = [local EXCEPT ![c] = next[2]]
                  /\ pc' = [pc EXCEPT ![c] = next[1]]
                  /\ evm_queue' = evm_queue \o next[3]
          ELSE /\ local' = [local EXCEPT ![c].execution = Some(r.execution)]
               /\ pc' = [pc EXCEPT ![c] = "t_mine"]
               /\ UNCHANGED evm_queue
    /\ UNCHANGED <<worker, miner_lock, temp, perm, block_notifier, log_notifier,
                   calls>>

\* self.miner.lock().await, then mine_with_one_transaction, which numbers the
\* block with the incremented block number
TransactMine(c) ==
    /\ pc[c] = "t_mine"
    /\ local[c].op = "transact"
    /\ miner_lock = None
    /\ miner_lock' = Some(c)
    /\ perm' = IncrementBlockNumber(perm)
    /\ local' = [local EXCEPT
                   ![c].block = Some(MineWithOneTransaction(perm'.block_number,
                                        Unwrap(local[c].tx), Unwrap(local[c].execution))),
                   ![c].increments = @ + 1]
    /\ pc' = [pc EXCEPT ![c] = "save_block"]
    /\ UNCHANGED <<evm_queue, worker, reply, temp, block_notifier, log_notifier,
                   calls>>

\* a loop whose guard outlives the round that ended with a conflict
TransactResetTempHolding(c) ==
    /\ pc[c] = "reset_temp"
    /\ local[c].op = "transact"
    /\ temp' = CommitResetTemp(temp, CommitResult(c))
    /\ miner_lock' = IF CommitRetried(CommitResult(c)) THEN miner_lock ELSE None
    /\ LET tx == Unwrap(local[c].tx)
       IN IF CommitAccepted(CommitResult(c))
          THEN /\ pc' = [pc EXCEPT ![c] = "t_notify_block"]
               /\ UNCHANGED <<local, evm_queue>>
          ELSE IF CommitRetried(CommitResult(c))
          THEN LET next == Submit(c, [local[c] EXCEPT !.execution = None, !.block = None,
                                                      !.saved = None],
                                  EvmInputFromTransaction(tx), "t_evm")
               IN /\ local' = [local EXCEPT ![c] = next[2]]
                  /\ pc' = [pc EXCEPT ![c] = next[1]]
                  /\ evm_queue' = evm_queue \o next[3]
          ELSE /\ pc' = [pc EXCEPT ![c] = "done"]
               /\ local' = [local EXCEPT ![c].result = RetErr(CommitResult(c).error)]
               /\ UNCHANGED evm_queue
    /\ UNCHANGED <<worker, reply, perm, block_notifier, log_notifier, calls>>

\* a loop that, after a commit conflict, mines the execution it has again
\* instead of executing the transaction again
TransactResetTempReusingExecution(c) ==
    /\ pc[c] = "reset_temp"
    /\ local[c].op = "transact"
    /\ temp' = CommitResetTemp(temp, CommitResult(c))
    /\ miner_lock' = None
    /\ IF CommitAccepted(CommitResult(c))
       THEN /\ pc' = [pc EXCEPT ![c] = "t_notify_block"]
            /\ UNCHANGED local
       ELSE IF CommitRetried(CommitResult(c))
       THEN /\ pc' = [pc EXCEPT ![c] = "t_mine"]
            /\ local' = [local EXCEPT ![c].block = None, ![c].saved = None]
       ELSE /\ pc' = [pc EXCEPT ![c] = "done"]
            /\ local' = [local EXCEPT ![c].result = RetErr(CommitResult(c).error)]
    /\ UNCHANGED <<evm_queue, worker, reply, perm, block_notifier, log_notifier, calls>>

\* commit returns (reset_temp done) and its result is matched; the miner
\* lock guard is dropped by the break, the continue and the return alike
TransactResetTemp(c) ==
    /\ pc[c] = "reset_temp"
    /\ local[c].op = "transact"
    /\ temp' = CommitResetTemp(temp, CommitResult(c))
    /\ miner_lock' = None
    /\ LET tx == Unwrap(local[c].tx)
       IN IF CommitAccepted(CommitResult(c))
          THEN /\ pc' = [pc EXCEPT ![c] = "t_notify_block"]
               /\ UNCHANGED <<local, evm_queue>>
          ELSE IF CommitRetried(CommitResult(c))
          THEN LET next == Submit(c, [local[c] EXCEPT !.execution = None, !.block = None,
                                                      !.saved = None],
                                  EvmInputFromTransaction(tx), "t_evm")
               IN /\ local' = [local EXCEPT ![c] = next[2]]
                  /\ pc' = [pc EXCEPT ![c] = next[1]]
                  /\ evm_queue' = evm_queue \o next[3]
          ELSE /\ pc' = [pc EXCEPT ![c] = "done"]
               /\ local' = [local EXCEPT ![c].result = RetErr(CommitResult(c).error)]
               /\ UNCHANGED evm_queue
    /\ UNCHANGED <<worker, reply, perm, block_notifier, log_notifier, calls>>

\* block_notifier.send(block)
TransactNotifyBlock(c) ==
    /\ pc[c] = "t_notify_block"
    /\ block_notifier' = Append(block_notifier, Unwrap(local[c].block))
    /\ pc' = [pc EXCEPT ![c] = "t_notify_logs"]
    /\ UNCHANGED <<local, evm_queue, worker, reply, miner_lock, temp, perm,
                   log_notifier, calls>>

\* LogMined: the logs of a mined transaction
MinedLogs(trx) ==
    [i \in 1..Len(trx.execution.logs) |->
        [address |-> trx.execution.logs[i].address,
         data |-> trx.execution.logs[i].data,
         transaction_hash |-> trx.input.hash,
         block_number |-> trx.block_number,
         log_index |-> i - 1]]

\* the logs of a block's transactions, in the order they are sent
RECURSIVE BlockLogs(_)
BlockLogs(transactions) ==
    IF transactions = <<>> THEN <<>>
    ELSE MinedLogs(Head(transactions)) \o BlockLogs(Tail(transactions))

\* log_notifier.send(log) for every log of the block, then Ok(execution)
TransactNotifyLogs(c) ==
    /\ pc[c] = "t_notify_logs"
    /\ log_notifier' = log_notifier \o BlockLogs(Unwrap(local[c].block).transactions)
    /\ local' = [local EXCEPT ![c].result = RetOk(Unwrap(local[c].execution))]
    /\ pc' = [pc EXCEPT ![c] = "done"]
    /\ UNCHANGED <<evm_queue, worker, reply, miner_lock, temp, perm,
                   block_notifier, calls>>

(***************************************************************************)
(* EthExecutor::mine_empty_block.                                          *)
(***************************************************************************)
\* self.miner.lock().await, then mine_with_no_transactions
MineEmptyMine(c) ==
    /\ CanCall(c)
    /\ miner_lock = None
    /\ calls' = calls + 1
    /\ miner_lock' = Some(c)
    /\ perm' = IncrementBlockNumber(perm)
    /\ local' = [local EXCEPT ![c] =
                   [NoCall EXCEPT !.op = "mine_empty_block",
                                  !.block = Some(MineWithNoTransactions(perm'.block_number)),
                                  !.increments = 1]]
    /\ pc' = [pc EXCEPT ![c] = "save_block"]
    /\ UNCHANGED <<evm_queue, worker, reply, temp, block_notifier, log_notifier>>

\* a mine_empty_block that drops the guard when commit returns, before it
\* sends the block
MineEmptyResetTempUnlocking(c) ==
    /\ pc[c] = "reset_temp"
    /\ local[c].op = "mine_empty_block"
    /\ temp' = CommitResetTemp(temp, CommitResult(c))
    /\ IF CommitResult(c).ok
       THEN /\ pc' = [pc EXCEPT ![c] = "me_notify"]
            /\ miner_lock' = None
            /\ UNCHANGED local
       ELSE /\ pc' = [pc EXCEPT ![c] = "done"]
            /\ local' = [local EXCEPT ![c].result = RetErr(CommitResult(c).error)]
            /\ miner_lock' = None
    /\ UNCHANGED <<evm_queue, worker, reply, perm, block_notifier, log_notifier,
                   calls>>

\* commit returns; an error returns from the function, dropping the guard
MineEmptyResetTemp(c) ==
    /\ pc[c] = "reset_temp"
    /\ local[c].op = "mine_empty_block"
    /\ temp' = CommitResetTemp(temp, CommitResult(c))
    /\ IF CommitResult(c).ok
       THEN /\ pc' = [pc EXCEPT ![c] = "me_notify"]
            /\ UNCHANGED <<local, miner_lock>>
       ELSE /\ pc' = [pc EXCEPT ![c] = "done"]
            /\ local' = [local EXCEPT ![c].result = RetErr(CommitResult(c).error)]
            /\ miner_lock' = None
    /\ UNCHANGED <<evm_queue, worker, reply, perm, block_notifier, log_notifier,
                   calls>>

\* block_notifier.send(block), Ok(()); the guard is dropped at the end
MineEmptyNotify(c) ==
    /\ pc[c] = "me_notify"
    /\ block_notifier' = Append(block_notifier, Unwrap(local[c].block))
    /\ miner_lock' = None
    /\ local' = [local EXCEPT ![c].result = RetOk(<<>>)]
    /\ pc' = [pc EXCEPT ![c] = "done"]
    /\ UNCHANGED <<evm_queue, worker, reply, temp, perm, log_notifier, calls>>

(***************************************************************************)
(* EthExecutor::import_offline.                                            *)
(***************************************************************************)
\* a loop head that hands the transaction to the worker pool before it looks
\* up the receipt
ImportLoopHeadSendingFirst(c, l, after) ==
    LET block == Unwrap(l.external_block)
    IN IF l.idx > Len(block.transactions) THEN <<after, l, <<>>>>
       ELSE LET tx == block.transactions[l.idx]
            IN IF tx.hash \notin DOMAIN l.receipts
               THEN <<"done", [l EXCEPT !.result = RetErr("MissingReceipt"), !.sent = @ + 1],
                      <<EvmTask(c, EvmInputFromTransaction(tx))>>>>
               ELSE Submit(c, [l EXCEPT !.sent = @ + 1], EvmInputFromTransaction(tx), "evm")

\* the head of the loop over the block's transactions, for the call
\* variables l of caller c: the receipt of transaction l.idx is looked up and
\* the transaction is sent to the worker pool; past the last transaction the
\* loop is left. <<pc, call variables, tasks sent>>
ImportLoopHead(c, l, after) ==
    LET block == Unwrap(l.external_block)
    IN IF l.idx > Len(block.transactions) THEN <<after, l, <<>>>>
       ELSE LET tx == block.transactions[l.idx]
            IN IF tx.hash \notin DOMAIN l.receipts
               THEN <<"done", [l EXCEPT !.result = RetErr("MissingReceipt")], <<>>>>
               ELSE Submit(c, [l EXCEPT !.sent = @ + 1], EvmInputFromTransaction(tx), "evm")

\* an import_offline that increments the block number before it re-executes
ImportOfflineStartIncrementing(c, n, at, kind) ==
    /\ CanCall(c)
    /\ calls' = calls + 1
    /\ LET block == ExternalBlock(calls + 1, ReadCurrentBlockNumber(perm) + 1, n)
           call == [NoCall EXCEPT !.op = "import_offline",
                                  !.external_block = Some(block),
                                  !.receipts = Receipts(block, at, kind),
                                  !.idx = 1,
                                  !.increments = 1]
           next == ImportLoopHead(c, call, "io_increment")
       IN /\ pc' = [pc EXCEPT ![c] = IF next[1] = "evm" THEN "io_evm" ELSE next[1]]
          /\ local' = [local EXCEPT ![c] = next[2]]
          /\ evm_queue' = evm_queue \o next[3]
    /\ perm' = IncrementBlockNumber(perm)
    /\ UNCHANGED <<worker, reply, miner_lock, temp, block_notifier, log_notifier>>

\* import_offline up to the first await
ImportOfflineStart(c, n, at, kind) ==
    /\ CanCall(c)
    /\ calls' = calls + 1
    /\ LET block == ExternalBlock(calls + 1, ReadCurrentBlockNumber(perm) + 1, n)
           call == [NoCall EXCEPT !.op = "import_offline",
                                  !.external_block = Some(block),
                                  !.receipts = Receipts(block, at, kind),
                                  !.idx = 1]
           next == ImportLoopHead(c, call, "io_increment")
       IN /\ pc' = [pc EXCEPT ![c] = IF next[1] = "evm" THEN "io_evm" ELSE next[1]]
          /\ local' = [local EXCEPT ![c] = next[2]]
          /\ evm_queue' = evm_queue \o next[3]
    /\ UNCHANGED <<worker, reply, miner_lock, temp, perm, block_notifier,
                   log_notifier>>

\* a loop that pushes the verified execution without saving its changes to
\* temporary storage
ImportOfflineReexecutedNotSaving(c) ==
    /\ pc[c] = "io_evm"
    /\ IsSome(reply[c])
    /\ reply' = [reply EXCEPT ![c] = None]
    /\ LET r == Unwrap(reply[c])
           l == local[c]
           tx == Unwrap(l.external_block).transactions[l.idx]
           receipt == l.receipts[tx.hash]
       IN IF ~r.ok
          THEN /\ local' = [local EXCEPT ![c].result = RetErr("EvmError")]
               /\ pc' = [pc EXCEPT ![c] = "done"]
               /\ UNCHANGED <<evm_queue, temp>>
          ELSE IF ~CompareWithReceipt(r.execution, receipt)
          THEN /\ local' = [local EXCEPT ![c].result = RetErr("ReceiptMismatch")]
               /\ pc' = [pc EXCEPT ![c] = "done"]
               /\ UNCHANGED <<evm_queue, temp>>
          ELSE LET te == [input |-> tx, receipt |-> receipt, execution |-> r.execution]
                   next == ImportLoopHead(c,
                              [l EXCEPT !.executions = Append(@, te), !.idx = @ + 1],
                              "io_increment")
               IN /\ UNCHANGED temp
                  /\ pc' = [pc EXCEPT ![c] = IF next[1] = "evm" THEN "io_evm" ELSE next[1]]
                  /\ local' = [local EXCEPT ![c] = next[2]]
                  /\ evm_queue' = evm_queue \o next[3]
    /\ UNCHANGED <<worker, miner_lock, perm, block_notifier, log_notifier, calls>>

\* the re-execution arrives: it is compared with the receipt, saved to
\* temporary storage (save_account_changes) and pushed, and the loop goes on
ImportOfflineReexecuted(c) ==
    /\ pc[c] = "io_evm"
    /\ IsSome(reply[c])
    /\ reply' = [reply EXCEPT ![c] = None]
    /\ LET r == Unwrap(reply[c])
           l == local[c]
           tx == Unwrap(l.external_block).transactions[l.idx]
           receipt == l.receipts[tx.hash]
       IN IF ~r.ok
          THEN /\ local' = [local EXCEPT ![c].result = RetErr("EvmError")]
               /\ pc' = [pc EXCEPT ![c] = "done"]
               /\ UNCHANGED <<evm_queue, temp>>
          ELSE IF ~CompareWithReceipt(r.execution, receipt)
          THEN /\ local' = [local EXCEPT ![c].result = RetErr("ReceiptMismatch")]
               /\ pc' = [pc EXCEPT ![c] = "done"]
               /\ UNCHANGED <<evm_queue, temp>>
          ELSE LET te == [input |-> tx, receipt |-> receipt, execution |-> r.execution]
                   next == ImportLoopHead(c,
                              [l EXCEPT !.executions = Append(@, te), !.idx = @ + 1],
                              "io_increment")
               IN /\ temp' = SaveExecution(temp, te)
                  /\ pc' = [pc EXCEPT ![c] = IF next[1] = "evm" THEN "io_evm" ELSE next[1]]
                  /\ local' = [local EXCEPT ![c] = next[2]]
                  /\ evm_queue' = evm_queue \o next[3]
    /\ UNCHANGED <<worker, miner_lock, perm, block_notifier, log_notifier, calls>>

\* Block::from_external: the block numbered as the external block, holding
\* the re-executed transactions in order
BlockFromExternal(block, executions) ==
    [number |-> block.number,
     transactions |-> [i \in 1..Len(executions) |->
                         MinedTransaction(executions[i].input, executions[i].execution,
                                          i - 1, block.number)]]

\* Block::from_external, then storage.increment_block_number
ImportOfflineIncrement(c) ==
    /\ pc[c] = "io_increment"
    /\ perm' = IncrementBlockNumber(perm)
    /\ local' = [local EXCEPT
                   ![c].block = Some(BlockFromExternal(Unwrap(local[c].external_block),
                                                       local[c].executions)),
                   ![c].increments = @ + 1]
    /\ pc' = [pc EXCEPT ![c] = "save_block"]
    /\ UNCHANGED <<evm_queue, worker, reply, miner_lock, temp, block_notifier,
                   log_notifier, calls>>

\* commit returns and import_offline returns its result
ImportOfflineResetTemp(c) ==
    /\ pc[c] = "reset_temp"
    /\ local[c].op = "import_offline"
    /\ temp' = CommitResetTemp(temp, CommitResult(c))
    /\ local' = [local EXCEPT ![c].result =
                   IF CommitResult(c).ok THEN RetOk(<<>>)
                   ELSE RetErr(CommitResult(c).error)]
    /\ pc' = [pc EXCEPT ![c] = "done"]
    /\ UNCHANGED <<evm_queue, worker, reply, miner_lock, perm, block_notifier,
                   log_notifier, calls>>

(***************************************************************************)
(* EthExecutor::import.                                                    *)
(***************************************************************************)
\* import up to the first await
ImportStart(c, n, at, kind) ==
    /\ CanCall(c)
    /\ calls' = calls + 1
    /\ LET block == ExternalBlock(calls + 1, ReadCurrentBlockNumber(perm) + 1, n)
           call == [NoCall EXCEPT !.op = "import",
                                  !.external_block = Some(block),
                                  !.receipts = Receipts(block, at, kind),
                                  !.idx = 1]
           next == ImportLoopHead(c, call, "done")
       IN /\ pc' = [pc EXCEPT ![c] = IF next[1] = "evm" THEN "im_evm" ELSE next[1]]
          /\ local' = [local EXCEPT ![c] = next[2]]
          /\ evm_queue' = evm_queue \o next[3]
    /\ UNCHANGED <<worker, reply, miner_lock, temp, perm, block_notifier,
                   log_notifier>>

\* the execution arrives and is compared with the receipt
ImportReexecuted(c) ==
    /\ pc[c] = "im_evm"
    /\ IsSome(reply[c])
    /\ reply' = [reply EXCEPT ![c] = None]
    /\ LET r == Unwrap(reply[c])
           l == local[c]
           tx == Unwrap(l.external_block).transactions[l.idx]
       IN IF ~r.ok
          THEN /\ local' = [local EXCEPT ![c].result = RetErr("EvmError")]
               /\ pc' = [pc EXCEPT ![c] = "done"]
          ELSE IF ~CompareWithReceipt(r.execution, l.receipts[tx.hash])
          THEN /\ local' = [local EXCEPT ![c].result = RetErr("ReceiptMismatch")]
               /\ pc' = [pc EXCEPT ![c] = "done"]
          ELSE /\ local' = [local EXCEPT ![c].execution = Some(r.execution)]
               /\ pc' = [pc EXCEPT ![c] = "im_mine"]
    /\ UNCHANGED <<evm_queue, worker, miner_lock, temp, perm, block_notifier,
                   log_notifier, calls>>

\* self.miner.lock().await.mine_with_one_transaction(..).await?: the guard is
\* a temporary of this statement and is dropped at its end
ImportMine(c) ==
    /\ pc[c] = "im_mine"
    /\ miner_lock = None
    /\ perm' = IncrementBlockNumber(perm)
    /\ LET l == local[c]
           tx == Unwrap(l.external_block).transactions[l.idx]
       IN local' = [local EXCEPT
                      ![c].block = Some(MineWithOneTransaction(perm'.block_number, tx,
                                                               Unwrap(l.execution))),
                      ![c].increments = @ + 1]
    /\ pc' = [pc EXCEPT ![c] = "save_block"]
    /\ UNCHANGED <<evm_queue, worker, reply, miner_lock, temp, block_notifier,
                   log_notifier, calls>>

\* commit returns: an error returns from import, otherwise the loop goes on
ImportResetTemp(c) ==
    /\ pc[c] = "reset_temp"
    /\ local[c].op = "import"
    /\ temp' = CommitResetTemp(temp, CommitResult(c))
    /\ IF ~CommitResult(c).ok
       THEN /\ local' = [local EXCEPT ![c].result = RetErr(CommitResult(c).error)]
            /\ pc' = [pc EXCEPT ![c] = "done"]
            /\ UNCHANGED evm_queue
       ELSE LET next == ImportLoopHead(c, [local[c] EXCEPT !.idx = @ + 1], "done")
                l == IF next[1] = "done" /\ next[2].result = None
                     THEN [next[2] EXCEPT !.result = RetOk(<<>>)]
                     ELSE next[2]
            IN /\ pc' = [pc EXCEPT ![c] = IF next[1] = "evm" THEN "im_evm" ELSE next[1]]
               /\ local' = [local EXCEPT ![c] = l]
               /\ evm_queue' = evm_queue \o next[3]
    /\ UNCHANGED <<worker, reply, miner_lock, perm, block_notifier, log_notifier,
                   calls>>

(***************************************************************************)
(* EthExecutor::call.                                                      *)
(***************************************************************************)
\* the points in time a call is made at
PointsInTime == {Present} \cup {Past(n) : n \in 0..1}

\* EvmInput::from_eth_call: the caller is the zero address
EvmInputFromCall(input, point_in_time) ==
    [caller |-> ZERO, contract |-> Some(Contract), data |-> input.input,
     point_in_time |-> point_in_time]

\* call up to the await: the EvmInput is built and sent to the worker pool
CallStart(c, point_in_time) ==
    /\ CanCall(c)
    /\ calls' = calls + 1
    /\ LET input == TransactionInput(HashOf(calls + 1, 0), ZERO)
           next == Submit(c, [NoCall EXCEPT !.op = "call", !.tx = Some(input)],
                          EvmInputFromCall(input, point_in_time), "c_evm")
       IN /\ local' = [local EXCEPT ![c] = next[2]]
          /\ evm_queue' = evm_queue \o next[3]
          /\ pc' = [pc EXCEPT ![c] = next[1]]
    /\ UNCHANGED <<worker, reply, miner_lock, temp, perm, block_notifier,
                   log_notifier>>

\* a call that keeps the state changes of its execution in temporary storage
CallReturnSaving(c) ==
    /\ pc[c] = "c_evm"
    /\ IsSome(reply[c])
    /\ reply' = [reply EXCEPT ![c] = None]
    /\ LET r == Unwrap(reply[c])
       IN /\ local' = [local EXCEPT ![c].result =
                         IF r.ok THEN RetOk(r.execution) ELSE RetErr("EvmError")]
          /\ temp' = IF r.ok
                     THEN SaveExecution(temp, [input |-> Unwrap(local[c].tx),
                                               execution |-> r.execution])
                     ELSE temp
    /\ pc' = [pc EXCEPT ![c] = "done"]
    /\ UNCHANGED <<evm_queue, worker, miner_lock, perm, block_notifier,
                   log_notifier, calls>>

\* the execution arrives and is returned; its state changes are ignored
CallReturn(c) ==
    /\ pc[c] = "c_evm"
    /\ IsSome(reply[c])
    /\ reply' = [reply EXCEPT ![c] = None]
    /\ LET r == Unwrap(reply[c])
       IN local' = [local EXCEPT ![c].result =
                      IF r.ok THEN RetOk(r.execution) ELSE RetErr("EvmError")]
    /\ pc' = [pc EXCEPT ![c] = "done"]
    /\ UNCHANGED <<evm_queue, worker, miner_lock, temp, perm, block_notifier,
                   log_notifier, calls>>

(***************************************************************************)
(* The temporary storage operations the block importer calls directly.     *)
(***************************************************************************)
\* InMemoryTemporaryStorage::set_active_block_number
SetActiveBlockNumber(c) ==
    /\ CanCall(c)
    /\ calls' = calls + 1
    /\ temp' = [temp EXCEPT !.active_block_number = Some(ReadCurrentBlockNumber(perm) + 1)]
    /\ UNCHANGED <<pc, local, evm_queue, worker, reply, miner_lock, perm,
                   block_notifier, log_notifier>>

\* InMemoryTemporaryStorage::set_external_block
SetExternalBlock(c) ==
    /\ CanCall(c)
    /\ calls' = calls + 1
    /\ temp' = [temp EXCEPT !.external_block =
                  Some(ExternalBlock(calls + 1, ReadCurrentBlockNumber(perm) + 1, 1))]
    /\ UNCHANGED <<pc, local, evm_queue, worker, reply, miner_lock, perm,
                   block_notifier, log_notifier>>

\* StratusStorage::reset_temp, called on its own; the value of the result is
\* the number of the call, which tells one reset from the next
ResetTemp(c) ==
    /\ CanCall(c)
    /\ calls' = calls + 1
    /\ temp' = TempReset(temp)
    /\ local' = [local EXCEPT ![c] = [NoCall EXCEPT !.op = "reset_temp",
                                                    !.result = RetOk(calls + 1)]]
    /\ pc' = [pc EXCEPT ![c] = "done"]
    /\ UNCHANGED <<evm_queue, worker, reply, miner_lock, perm, block_notifier,
                   log_notifier>>

\* the changes of one account an execution may carry: each of nonce, balance
\* and bytecode unset, or set to a value v of its own; the bytecode may also
\* be set to no bytecode; at most one of two slots set to v
AccountChanges(v) ==
    {[address |-> address, nonce |-> nonce, balance |-> balance,
      bytecode |-> bytecode, slots |-> slots] :
        address \in {SignerOf(1), Contract},
        nonce \in {NoChange, Change(0, v)},
        balance \in {NoChange, Change(0, v)},
        bytecode \in {NoChange, Change(None, None), Change(None, Some(v))},
        slots \in {<<>>, SlotIdx :> Change(0, v), "s1" :> Change(0, v)}}

\* the changes of an execution that set the contract's slot and nothing else
SlotChanges(v) ==
    {change \in AccountChanges(v) :
        /\ change.address = Contract
        /\ change.nonce = NoChange
        /\ change.balance = NoChange
        /\ change.bytecode = NoChange
        /\ DOMAIN change.slots = {SlotIdx}}

\* the changes of an execution that set slots of an account and none of its
\* other fields
SlotOnlyChanges(v) ==
    {change \in AccountChanges(v) :
        /\ change.nonce = NoChange
        /\ change.balance = NoChange
        /\ change.bytecode = NoChange
        /\ change.slots /= <<>>}

\* StratusStorage::save_account_changes with an execution that changed one
\* account
SaveAccountChanges(c, change) ==
    /\ CanCall(c)
    /\ calls' = calls + 1
    /\ temp' = SaveExecution(temp, [execution |-> [changes |-> (change.address :> change)]])
    /\ local' = [local EXCEPT ![c] = [NoCall EXCEPT !.op = "save_account_changes",
                                                    !.result = RetOk(calls + 1)]]
    /\ pc' = [pc EXCEPT ![c] = "done"]
    /\ UNCHANGED <<evm_queue, worker, reply, miner_lock, perm, block_notifier,
                   log_notifier>>

\* InMemoryTemporaryStorage::remove_executions_before, called with an index
\* within the pending list; the call keeps its argument in idx
RemoveExecutionsBefore(c, index) ==
    /\ CanCall(c)
    /\ calls' = calls + 1
    /\ temp' = TempRemoveExecutionsBefore(temp, index)
    /\ local' = [local EXCEPT ![c] = [NoCall EXCEPT !.op = "remove_executions_before",
                                                    !.idx = index,
                                                    !.result = RetOk(calls + 1)]]
    /\ pc' = [pc EXCEPT ![c] = "done"]
    /\ UNCHANGED <<evm_queue, worker, reply, miner_lock, perm, block_notifier,
                   log_notifier>>

(***************************************************************************)
(* The specifications.                                                     *)
(***************************************************************************)
\* the EVM worker threads
WorkerNext ==
    \/ \E w \in Workers : WorkerRecv(w)
    \/ \E w \in Workers : WorkerExecute(w)

\* save_block of any caller's commit; it may fail
SaveBlockNext == \E c \in Callers : \E fault \in BOOLEAN : CommitSaveBlock(c, fault)

\* the steps of the transact calls of the callers cs after their start
TransactSteps(cs) ==
    \/ \E c \in cs : TransactCheckConflicts(c)
    \/ \E c \in cs : TransactMine(c)
    \/ \E c \in cs : TransactResetTemp(c)
    \/ \E c \in cs : TransactNotifyBlock(c)
    \/ \E c \in cs : TransactNotifyLogs(c)

TransactNext(cs) ==
    \/ \E c \in cs : \E signer \in {ZERO, SignerOf(c)} : TransactStart(c, signer)
    \/ TransactSteps(cs)

MineEmptyNext(cs) ==
    \/ \E c \in cs : MineEmptyMine(c)
    \/ \E c \in cs : MineEmptyResetTemp(c)
    \/ \E c \in cs : MineEmptyNotify(c)

ImportOfflineNext(cs, any) ==
    \/ \E c \in cs : \E n \in 1..MaxBlockTxs : \E at \in Positions(n, any) :
          \E kind \in ReceiptKinds : ImportOfflineStart(c, n, at, kind)
    \/ \E c \in cs : ImportOfflineReexecuted(c)
    \/ \E c \in cs : ImportOfflineIncrement(c)
    \/ \E c \in cs : ImportOfflineResetTemp(c)

ImportNext(cs, any) ==
    \/ \E c \in cs : \E n \in 1..MaxBlockTxs : \E at \in Positions(n, any) :
          \E kind \in ReceiptKinds : ImportStart(c, n, at, kind)
    \/ \E c \in cs : ImportReexecuted(c)
    \/ \E c \in cs : ImportMine(c)
    \/ \E c \in cs : ImportResetTemp(c)

TempNext(cs) ==
    \/ \E c \in cs : SetActiveBlockNumber(c)
    \/ \E c \in cs : SetExternalBlock(c)

CallNext(cs) ==
    \/ \E c \in cs : \E point_in_time \in PointsInTime : CallStart(c, point_in_time)
    \/ \E c \in cs : CallReturn(c)

\* the whole executor: every operation, called by any caller
Next ==
    \/ WorkerNext
    \/ SaveBlockNext
    \/ TransactNext(Callers)
    \/ CallNext(Callers)
    \/ MineEmptyNext(Callers)
    \/ ImportOfflineNext(Callers, FALSE)
    \/ ImportNext(Callers, FALSE)
    \/ TempNext(Callers)

Spec == Init /\ [][Next]_vars

\* concurrent transact and mine_empty_block calls only
NextTransact ==
    \/ WorkerNext
    \/ SaveBlockNext
    \/ TransactNext(Callers)
    \/ MineEmptyNext(Callers)

SpecTransact == Init /\ [][NextTransact]_vars

\* concurrent transact and call
NextCall ==
    \/ WorkerNext
    \/ SaveBlockNext
    \/ TransactNext(Callers)
    \/ CallNext(Callers)

SpecCall == Init /\ [][NextCall]_vars

\* the block importer, one task that calls import_offline and the temporary
\* storage operations, beside the transact calls of the other callers
Importer == CHOOSE c \in Callers : \A d \in Callers : c <= d

NextImporter ==
    \/ WorkerNext
    \/ SaveBlockNext
    \/ ImportOfflineNext({Importer}, FALSE)
    \/ TempNext({Importer})
    \/ TransactNext(Callers \ {Importer})

SpecImporter == Init /\ [][NextImporter]_vars

\* transact calls on a pool whose threads may panic: the pool as it was
\* spawned, or after it has lost its first thread to an earlier panic
InitPanic ==
    /\ pc = [c \in Callers |-> "idle"]
    /\ local = [c \in Callers |-> NoCall]
    /\ evm_queue = <<>>
    /\ worker \in {[w \in Workers |-> None],
                   [w \in Workers |-> IF \A v \in Workers : w <= v THEN Dead ELSE None]}
    /\ reply = [c \in Callers |-> None]
    /\ miner_lock = None
    /\ temp = EmptyTemp
    /\ perm = EmptyPerm
    /\ block_notifier = <<>>
    /\ log_notifier = <<>>
    /\ calls = 0

NextPanic ==
    \/ WorkerNext
    \/ \E w \in Workers : WorkerPanic(w)
    \/ SaveBlockNext
    \/ TransactNext(Callers)

SpecPanic == InitPanic /\ [][NextPanic]_vars

\* the block importer alone: import_offline and import of blocks whose
\* receipts may be off at any position, and the temporary storage operations
NextImport ==
    \/ WorkerNext
    \/ SaveBlockNext
    \/ ImportOfflineNext({Importer}, TRUE)
    \/ ImportNext({Importer}, TRUE)
    \/ TempNext({Importer})
    \/ ResetTemp(Importer)
    \/ \E index \in 0..Len(temp.tx_executions) : RemoveExecutionsBefore(Importer, index)

SpecImport == Init /\ [][NextImport]_vars

\* temporary storage alone: executions saved one after the other, and resets
NextMerge ==
    \/ \E change \in AccountChanges(calls + 1) : SaveAccountChanges(Importer, change)
    \/ ResetTemp(Importer)

SpecMerge == Init /\ [][NextMerge]_vars

\* transact and mine_empty_block calls, while executions that set the
\* contract's slot are saved to temporary storage
NextConflict ==
    \/ WorkerNext
    \/ SaveBlockNext
    \/ TransactNext(Callers)
    \/ MineEmptyNext(Callers)
    \/ \E change \in SlotChanges(calls + 1) : SaveAccountChanges(Importer, change)

SpecConflict == Init /\ [][NextConflict]_vars

\* transact calls, while executions that set slots only are saved to
\* temporary storage
NextShadow ==
    \/ WorkerNext
    \/ SaveBlockNext
    \/ TransactNext(Callers)
    \/ \E change \in SlotOnlyChanges(calls + 1) : SaveAccountChanges(Importer, change)

SpecShadow == Init /\ [][NextShadow]_vars

\* transact calls that may be cancelled while they await the EVM
NextCancel ==
    \/ WorkerNext
    \/ SaveBlockNext
    \/ TransactNext(Callers)
    \/ \E c \in Callers : Cancel(c)

SpecCancel == Init /\ [][NextCancel]_vars

\* transact calls with non-zero signers and a storage that does not fail,
\* every caller and every worker thread scheduled fairly
CallerNext(c) ==
    \/ CommitSaveBlock(c, FALSE)
    \/ TransactCheckConflicts(c)
    \/ TransactMine(c)
    \/ TransactResetTemp(c)
    \/ TransactNotifyBlock(c)
    \/ TransactNotifyLogs(c)

NextLive ==
    \/ \E w \in Workers : WorkerRecv(w)
    \/ \E w \in Workers : WorkerExecute(w)
    \/ \E c \in Callers : TransactStart(c, SignerOf(c))
    \/ \E c \in Callers : CallerNext(c)

Fairness ==
    /\ \A c \in Callers : WF_vars(CallerNext(c))
    /\ \A w \in Workers : WF_vars(WorkerRecv(w) \/ WorkerExecute(w))

SpecLive == Init /\ [][NextLive]_vars /\ Fairness

(***************************************************************************)
(* Properties.                                                             *)
(***************************************************************************)
\* what caller c's call returned
Result(c) == Unwrap(local[c].result)

\* caller c's call of op has returned
Returned(c, op) == pc[c] = "done" /\ local[c].op = op

\* no call is in progress
Quiescent == \A c \in Callers : pc[c] \in {"idle", "done"}

\* the positions in permanent storage of the blocks holding transaction hash
BlocksWith(hash) ==
    {i \in DOMAIN perm.blocks :
        \E j \in DOMAIN perm.blocks[i].transactions :
            perm.blocks[i].transactions[j].input.hash = hash}

\* every value the block's transactions set is in the history of its field,
\* stamped with the block's number
Recorded(p, block) ==
    LET changes == CompactAccountChanges(block.transactions)
    IN \A af \in (DOMAIN changes) \X Fields :
          LET vc == FieldChange(changes[af[1]], af[2])
              history == PermHistory(p, af[1], af[2])
          IN IsSome(Take(vc)) =>
                \E k \in DOMAIN history :
                    history[k] = [number |-> block.number, value |-> Unwrap(Take(vc))]

\* C1: a transact call that returned Ok has the changes of the execution it
\* returned committed to permanent storage in exactly one block, and one
\* that returned Err has no block holding its transaction in permanent
\* storage.
C1_TransactAtomic ==
    \A c \in Callers :
        Returned(c, "transact") =>
            LET tx == Unwrap(local[c].tx)
            IN IF Result(c).ok
               THEN \E i \in DOMAIN perm.blocks :
                        /\ BlocksWith(tx.hash) = {i}
                        /\ Len(perm.blocks[i].transactions) = 1
                        /\ perm.blocks[i].transactions[1].execution = Result(c).value
                        /\ Recorded(perm, perm.blocks[i])
               ELSE BlocksWith(tx.hash) = {}

\* one transact returned Ok, and another returned the error of a commit that
\* failed
C1_Witness ==
    \E c, d \in Callers :
        /\ Returned(c, "transact") /\ Result(c).ok
        /\ Returned(d, "transact") /\ ~Result(d).ok /\ Result(d).error = "Other"

\* C2: when no call is in progress, the committed blocks are numbered
\* 0, 1, 2, ... in the order they were committed, and
\* read_current_block_number is the number of blocks committed after
\* genesis.
C2_DenseBlockNumbers ==
    Quiescent =>
        /\ \A i \in DOMAIN perm.blocks : perm.blocks[i].number = i - 1
        /\ ReadCurrentBlockNumber(perm) = Len(perm.blocks) - 1

\* C3: no two blocks of permanent storage have the same number: for every
\* number at most one commit of a block with that number succeeded.
C3_OneCommitPerNumber ==
    \A i, j \in DOMAIN perm.blocks :
        perm.blocks[i].number = perm.blocks[j].number => i = j

\* two transacts committed their blocks, one of them on a retry after the
\* commit of its first block met a conflict
C3_Witness ==
    /\ \A c \in Callers : Returned(c, "transact") /\ Result(c).ok
    /\ \E c \in Callers : local[c].increments > 1

\* C4: the blocks sent to the new-heads subscribers are in strictly
\* increasing order of their numbers.
C4_NotifiedInOrder ==
    \A i, j \in DOMAIN block_notifier :
        i < j => block_notifier[i].number < block_notifier[j].number

\* the step in which caller c calls transact with a zero signer
ZeroSignerCall(c) ==
    /\ calls' = calls + 1
    /\ local'[c] /= local[c]
    /\ local'[c].op = "transact"
    /\ Unwrap(local'[c].tx).signer = ZERO

\* C5: a transact call with the zero address as signer returns an error in
\* the step it is made, and that step sends no task to the worker pool,
\* starts no worker, takes no miner lock, changes neither storage and sends
\* no notification.
C5_ZeroSignerRejected ==
    [][\A c \in Callers :
          ZeroSignerCall(c) =>
              /\ pc'[c] = "done"
              /\ ~Unwrap(local'[c].result).ok
              /\ UNCHANGED <<evm_queue, worker, reply, miner_lock, temp, perm,
                             block_notifier, log_notifier>>]_vars

\* a transact with a zero signer has returned its error
C5_Witness ==
    \E c \in Callers :
        /\ Returned(c, "transact")
        /\ Unwrap(local[c].tx).signer = ZERO
        /\ Result(c) = [ok |-> FALSE, error |-> "ZeroSignerRejected"]

\* C6: under fair scheduling, with non-zero signers and no storage failure,
\* every transact call in progress eventually returns Ok.
C6_TransactReturnsOk ==
    \A c \in Callers :
        (pc[c] \notin {"idle", "done"}) ~> (Returned(c, "transact") /\ Result(c).ok)

\* two transacts returned Ok, one of them after a retry
C6_Witness ==
    /\ \A c \in Callers : Returned(c, "transact") /\ Result(c).ok
    /\ \E c \in Callers : local[c].increments = 2
    /\ Len(perm.blocks) = Cardinality(Callers) + 1

\* C7: when the transacts of two callers, which sign with distinct addresses
\* and write the same slot, have both returned Ok, each transaction is in a
\* committed block, the two blocks have distinct numbers, and the slot read
\* at Present holds the value written by the block with the higher number.
C7_LastWriterWins ==
    \A c, d \in Callers :
        (/\ c /= d
         /\ Returned(c, "transact") /\ Result(c).ok
         /\ Returned(d, "transact") /\ Result(d).ok) =>
            LET tc == Unwrap(local[c].tx)
                td == Unwrap(local[d].tx)
            IN /\ BlocksWith(tc.hash) /= {} /\ BlocksWith(td.hash) /= {}
               /\ \A i \in BlocksWith(tc.hash) : \A j \in BlocksWith(td.hash) :
                     /\ perm.blocks[i].number /= perm.blocks[j].number
                     /\ ReadSlot(temp, perm, Contract, SlotIdx, Present).value =
                           IF perm.blocks[i].number > perm.blocks[j].number
                           THEN tc.input ELSE td.input

\* two transacts that ran concurrently returned Ok: one of them committed on
\* a retry, after the block of its first execution met a conflict
C7_Witness ==
    \E c, d \in Callers :
        /\ c /= d
        /\ Returned(c, "transact") /\ Result(c).ok /\ local[c].increments = 1
        /\ Returned(d, "transact") /\ Result(d).ok /\ local[d].increments = 2
        /\ SignerOf(c) /= SignerOf(d)

\* the import_offline of caller c returned a receipt mismatch
ReceiptMismatch(c) ==
    /\ Returned(c, "import_offline")
    /\ Result(c) = [ok |-> FALSE, error |-> "ReceiptMismatch"]

\* C8: an import_offline that returned a receipt mismatch has saved no block
\* to permanent storage (none of the block's transactions is in a saved
\* block) and has not incremented the block number.
C8_MismatchSavesNothing ==
    \A c \in Callers :
        ReceiptMismatch(c) =>
            /\ local[c].saves = 0
            /\ local[c].increments = 0
            /\ local[c].block = None
            /\ \A i \in DOMAIN Unwrap(local[c].external_block).transactions :
                  BlocksWith(Unwrap(local[c].external_block).transactions[i].hash) = {}

\* an import_offline returned a receipt mismatch at the second transaction of
\* its block, after the first had matched
C8_Witness ==
    \E c \in Callers :
        /\ ReceiptMismatch(c)
        /\ local[c].idx = 2
        /\ Len(local[c].executions) = 1

\* C9: when an import_offline has returned a receipt mismatch and no other
\* call is in progress, temporary storage holds no account or slot changes
\* and no pending executions.
C9_MismatchLeavesTempEmpty ==
    \A c \in Callers :
        (ReceiptMismatch(c) /\ Quiescent) =>
            /\ temp.accounts = <<>>
            /\ temp.tx_executions = <<>>

\* the value permanent storage reads for an account field at a point in time
ReadField(p, address, field, pit) ==
    IF field \in {"nonce", "balance"}
    THEN IF IsSome(PermReadAccount(p, address, pit))
         THEN Some(IF field = "nonce" THEN Unwrap(PermReadAccount(p, address, pit)).nonce
                   ELSE Unwrap(PermReadAccount(p, address, pit)).balance)
         ELSE None
    ELSE IF IsSome(PermReadSlot(p, address, field, pit))
         THEN Some(Unwrap(PermReadSlot(p, address, field, pit)).value)
         ELSE None

\* every value the block's transactions set is the one permanent storage
\* reads at the point in time
Readable(p, block, pit) ==
    LET changes == CompactAccountChanges(block.transactions)
    IN \A af \in (DOMAIN changes) \X Fields :
          LET vc == FieldChange(changes[af[1]], af[2])
          IN IsSome(Take(vc)) => ReadField(p, af[1], af[2], pit) = Take(vc)

\* the step in which commit returns Ok to caller c
CommitReturnsOk(c) ==
    /\ pc[c] = "reset_temp"
    /\ pc'[c] /= "reset_temp"
    /\ CommitResult(c).ok

\* C10: when commit returns Ok for a block, temporary storage holds no
\* accounts, slots, pending executions, external block or active block
\* number; every change of the block's transactions is in permanent storage
\* under the block's number, and is what permanent storage reads at Present
\* unless a later block has been saved since.
C10_CommitFlushes ==
    [][\A c \in Callers :
          CommitReturnsOk(c) =>
              LET block == Unwrap(local[c].block)
              IN /\ temp' = EmptyTemp
                 /\ Recorded(perm', block)
                 /\ perm'.blocks[Len(perm'.blocks)] = block =>
                        Readable(perm', block, Present)]_vars

\* save_block has accepted the two-transaction block of an import_offline
\* and commit is about to reset a temporary storage that holds accounts,
\* slots, pending executions and an external block
C10_Witness ==
    \E c \in Callers :
        /\ pc[c] = "reset_temp"
        /\ CommitResult(c).ok
        /\ Len(Unwrap(local[c].block).transactions) = 2
        /\ Len(temp.tx_executions) = 2
        /\ \E a \in DOMAIN temp.accounts : temp.accounts[a].slots /= <<>>
        /\ IsSome(temp.external_block)

\* the step in which commit returns to caller c
CommitReturns(c) == pc[c] = "reset_temp" /\ pc'[c] /= "reset_temp"

\* C11: when commit returns, whatever save_block returned (Ok, a conflict or
\* another error), temporary storage has been reset and permanent storage is
\* as save_block left it; and the caller sees the result of save_block: on Ok
\* it goes on without an error, on a conflict a transact runs its loop again,
\* and on any other failure the caller returns the error of save_block.
C11_CommitAlwaysResets ==
    [][\A c \in Callers :
          CommitReturns(c) =>
              /\ temp' = EmptyTemp
              /\ perm' = perm
              /\ IF CommitResult(c).ok
                 THEN pc'[c] = "done" => Unwrap(local'[c].result).ok
                 ELSE IF local[c].op = "transact" /\ CommitResult(c).error = "Conflict"
                 THEN pc'[c] = "t_evm"
                 ELSE /\ pc'[c] = "done"
                      /\ local'[c].result = RetErr(CommitResult(c).error)]_vars

\* save_block has rejected the block of an import_offline with a conflict
\* and commit is about to return, with the executions of the block still in
\* temporary storage
C11_Witness ==
    \E c \in Callers :
        /\ pc[c] = "reset_temp"
        /\ local[c].op = "import_offline"
        /\ ~CommitResult(c).ok
        /\ CommitResult(c).error = "Conflict"
        /\ temp.tx_executions /= <<>>
        /\ temp.accounts /= <<>>

\* a step of caller c's call: it is made, or it returns
CallStep(c) == local'[c].op = "call" /\ pc'[c] /= pc[c]

\* a step of worker thread w on the task of a call: taken, or executed
CallWorkerStep(w) ==
    /\ worker'[w] /= worker[w]
    /\ \/ IsSome(worker[w]) /\ Unwrap(worker[w]).input.caller = ZERO
       \/ IsSome(worker'[w]) /\ Unwrap(worker'[w]).input.caller = ZERO

\* C12: no step of a call - making it, a worker taking and executing its
\* task, its return - changes temporary storage, permanent storage (the
\* current block number with it), the holder of the miner lock, or what was
\* sent to the block and log notifiers.
C12_CallChangesNothing ==
    [][((\E c \in Callers : CallStep(c)) \/ (\E w \in Workers : CallWorkerStep(w))) =>
          UNCHANGED <<temp, perm, miner_lock, block_notifier, log_notifier>>]_vars

\* a call returned an execution that read the slot a committed transact wrote
\* and that carries state changes of its own
C12_Witness ==
    \E c \in Callers :
        /\ Returned(c, "call")
        /\ Result(c).ok
        /\ Len(perm.blocks) > 1
        /\ Result(c).value.changes[Contract].slots[SlotIdx].original
              = Some(PermCurrent(perm, Contract, SlotIdx))
        /\ PermCurrent(perm, Contract, SlotIdx) /= 0
        /\ IsSome(Take(Result(c).value.changes[Contract].slots[SlotIdx]))

\* caller c is in mine_empty_block, past the mining of its block
MineEmptyActive(c) ==
    /\ local[c].op = "mine_empty_block"
    /\ pc[c] \in {"save_block", "reset_temp", "me_notify"}

\* C13: mine_empty_block takes the miner lock and advances the block number
\* by one when it mines; while it commits and broadcasts it holds the lock,
\* the block number stays, and its own steps send nothing but, in the step
\* that returns Ok, exactly its block, which has no transactions, is the
\* last block saved and carries the current block number.
C13_MineEmptyBlock ==
    [][\A c \in Callers :
          /\ (~MineEmptyActive(c) /\ MineEmptyActive(c)') =>
                /\ miner_lock' = Some(c)
                /\ ReadCurrentBlockNumber(perm') = ReadCurrentBlockNumber(perm) + 1
          /\ MineEmptyActive(c) =>
                /\ miner_lock = Some(c)
                /\ ReadCurrentBlockNumber(perm') = ReadCurrentBlockNumber(perm)
                /\ (pc'[c] /= pc[c] /\ pc[c] /= "me_notify") =>
                      block_notifier' = block_notifier
                /\ (pc'[c] /= pc[c] /\ pc[c] = "me_notify") =>
                      LET block == Unwrap(local[c].block)
                      IN /\ block_notifier' = Append(block_notifier, block)
                         /\ block.transactions = <<>>
                         /\ block.number = ReadCurrentBlockNumber(perm)
                         /\ perm.blocks[Len(perm.blocks)] = block
                         /\ Unwrap(local'[c].result).ok]_vars

\* a mine_empty_block returned Ok and its empty block is the last one sent,
\* while the transact of another caller waits for the miner lock
C13_Witness ==
    \E c, d \in Callers :
        /\ Returned(c, "mine_empty_block")
        /\ Result(c).ok
        /\ block_notifier /= <<>>
        /\ block_notifier[Len(block_notifier)] = Unwrap(local[c].block)
        /\ pc[d] = "t_mine"

\* the addresses and slot indexes read: those the transactions use, and one
\* of each that nothing writes
Addresses == 0..(Contract + 1)
SlotIndexes == {SlotIdx, "s1"}

\* C14: read_account returns the account of the overlay when temporary
\* storage holds the address, else the account permanent storage has at the
\* point in time, else an account with the address and default fields;
\* read_slot returns the slot of the overlay when it holds one, else the slot
\* of permanent storage, else a slot with the index and the default value.
C14_ReadThrough ==
    \A a \in Addresses : \A pit \in PointsInTime :
        /\ ReadAccount(temp, perm, a, pit) =
              IF a \in DOMAIN temp.accounts THEN temp.accounts[a].info
              ELSE IF IsSome(PermReadAccount(perm, a, pit))
              THEN Unwrap(PermReadAccount(perm, a, pit))
              ELSE [address |-> a, nonce |-> 0, balance |-> 0, bytecode |-> None]
        /\ \A i \in SlotIndexes :
              ReadSlot(temp, perm, a, i, pit) =
                 IF a \in DOMAIN temp.accounts /\ i \in DOMAIN temp.accounts[a].slots
                 THEN temp.accounts[a].slots[i]
                 ELSE IF IsSome(PermReadSlot(perm, a, i, pit))
                 THEN Unwrap(PermReadSlot(perm, a, i, pit))
                 ELSE [index |-> i, value |-> 0]

\* both layers hold an account and a slot and disagree on them, an address is
\* in permanent storage only, and one is in neither
C14_Witness ==
    /\ \E a \in DOMAIN temp.accounts :
          /\ IsSome(PermReadAccount(perm, a, Present))
          /\ Unwrap(PermReadAccount(perm, a, Present)) /= temp.accounts[a].info
    /\ \E a \in DOMAIN temp.accounts :
          /\ SlotIdx \in DOMAIN temp.accounts[a].slots
          /\ IsSome(PermReadSlot(perm, a, SlotIdx, Present))
          /\ Unwrap(PermReadSlot(perm, a, SlotIdx, Present)) /= temp.accounts[a].slots[SlotIdx]
    /\ \E a \in Addresses :
          a \notin DOMAIN temp.accounts /\ IsSome(PermReadAccount(perm, a, Present))
    /\ \E a \in Addresses :
          a \notin DOMAIN temp.accounts /\ PermReadAccount(perm, a, Present) = None

\* the block numbers selected, some of them past the current block number
Numbers == 0..(2 * MaxCalls + 1)

\* a hash no block has
UnknownHash == <<"unknown">>

\* the hashes of the blocks of permanent storage
KnownHashes == {BlockHash(perm.blocks[i]) : i \in DOMAIN perm.blocks}

\* C15: translate_to_point_in_time maps Latest to Present, Number(k) to
\* Past(k) when k is at most the current block number and to Past of the
\* current block number otherwise, Earliest to Past of the number of block 0,
\* Hash(h) to Past of the number of the block with hash h, and a hash no
\* block has to an error; no Past it returns is above the current block
\* number.
C15_TranslateToPointInTime ==
    LET tip == ReadCurrentBlockNumber(perm)
    IN /\ TranslateToPointInTime(perm, Latest) = [ok |-> TRUE, value |-> Present]
       /\ \A k \in Numbers :
             TranslateToPointInTime(perm, Number(k)) =
                [ok |-> TRUE, value |-> IF k <= tip THEN Past(k) ELSE Past(tip)]
       /\ TranslateToPointInTime(perm, Earliest) =
             [ok |-> TRUE, value |-> Past(perm.blocks[1].number)]
       /\ perm.blocks[1].number = 0
       /\ \A i \in DOMAIN perm.blocks :
             TranslateToPointInTime(perm, Hash(BlockHash(perm.blocks[i]))) =
                [ok |-> TRUE, value |-> Past(perm.blocks[i].number)]
       /\ ~TranslateToPointInTime(perm, Hash(UnknownHash)).ok
       /\ \A selection \in {Latest, Earliest} \cup {Number(k) : k \in Numbers}
                           \cup {Hash(h) : h \in KnownHashes \cup {UnknownHash}} :
             LET r == TranslateToPointInTime(perm, selection)
             IN (r.ok /\ r.value.kind = "Past") => r.value.number <= tip

\* blocks have been committed with a gap in their numbers, so that there are
\* numbers below the current block number, with and without a block, and
\* numbers above it
C15_Witness ==
    /\ ReadCurrentBlockNumber(perm) = 3
    /\ Len(perm.blocks) = 3
    /\ perm.blocks[3].number = 3

\* the tasks in the queue and in the hands of the workers
TasksInFlight ==
    {evm_queue[i] : i \in DOMAIN evm_queue}
        \cup {Unwrap(worker[w]) : w \in {v \in Workers : Busy(v)}}

\* the execution is that of the input of caller c's call: it logs the data
\* of the call's transaction, which no other submission carries
OwnExecution(c, execution) ==
    /\ Len(execution.logs) = 1
    /\ execution.logs[1].data = Unwrap(local[c].tx).input
    /\ Unwrap(local[c].tx).signer \in DOMAIN execution.changes

\* C16: a result on the reply channel of a caller is the execution of the
\* input that caller is awaiting, whichever worker executed it and in
\* whatever order the tasks complete; every task in flight is the one its
\* submitter awaits; and the execution a transact or a call returned is that
\* of its own input.
C16_OwnResult ==
    /\ \A c \in Callers :
          IsSome(reply[c]) =>
              /\ pc[c] \in {"t_evm", "c_evm"}
              /\ Unwrap(reply[c]).ok
              /\ OwnExecution(c, Unwrap(reply[c]).execution)
    /\ \A task \in TasksInFlight :
          /\ pc[task.caller] \in {"t_evm", "c_evm"}
          /\ reply[task.caller] = None
          /\ task.input.data = Unwrap(local[task.caller].tx).input
          /\ task.input.caller = Unwrap(local[task.caller].tx).signer
    /\ \A c \in Callers :
          ((Returned(c, "transact") \/ Returned(c, "call")) /\ Result(c).ok) =>
              OwnExecution(c, Result(c).value)

\* the tasks complete out of order: the second worker has replied to a
\* caller while the first worker still executes the task of another, taken
\* earlier
C16_Witness ==
    /\ Busy(1)
    /\ \E c \in Callers :
          /\ c /= Unwrap(worker[1]).caller
          /\ IsSome(reply[c])
          /\ OwnExecution(c, Unwrap(reply[c]).execution)


(***************************************************************************)
(* C17                                                                     *)
(***************************************************************************)

\* the transact call of c reads the reply channel of its task and finds it
\* closed without a result
ClosedReply(c) ==
    /\ local[c].op = "transact"
    /\ pc[c] = "t_evm"
    /\ IsSome(reply[c])
    /\ ~Unwrap(reply[c]).ok
    /\ reply'[c] = None

\* the transact call of c reaches evm_tx.send in this step: at its first
\* round, after a conflict of check_conflicts, or after a commit that
\* reported a conflict
SendAttempted(c) ==
    \/ /\ CanCall(c)
       /\ calls' = calls + 1
       /\ local'[c].op = "transact"
       /\ Unwrap(local'[c].tx).hash = HashOf(calls + 1, 0)
       /\ ~SignerIsZero(Unwrap(local'[c].tx))
    \/ /\ local[c].op = "transact"
       /\ pc[c] = "t_evm"
       /\ IsSome(reply[c])
       /\ reply'[c] = None
       /\ Unwrap(reply[c]).ok
       /\ IsSome(CheckConflicts(temp, Unwrap(reply[c]).execution))
    \/ /\ local[c].op = "transact"
       /\ pc[c] = "reset_temp"
       /\ pc'[c] /= pc[c]
       /\ CommitRetried(CommitResult(c))

\* C17: a transact call that finds the reply channel of its task closed
\* without a result, or that reaches the send on a closed task queue, returns
\* an error in that very step: it sends no task again, mines nothing more and
\* changes no permanent state, and no block holds its transaction.
C17_ClosedChannelEndsTransact ==
    [][\A c \in Callers :
        (ClosedReply(c) \/ (QueueClosed /\ SendAttempted(c))) =>
            /\ pc'[c] = "done"
            /\ ~Unwrap(local'[c].result).ok
            /\ evm_queue' = evm_queue
            /\ perm' = perm
            /\ BlocksWith(Unwrap(local'[c].tx).hash) = {}
            /\ local'[c].increments <= local[c].increments
            /\ local'[c].saves <= local[c].saves]_vars

\* one transact has returned the error of a closed reply channel and another
\* the error of a closed task queue
C17_Witness ==
    \E c, d \in Callers :
        /\ Returned(c, "transact")
        /\ ~Result(c).ok
        /\ Result(c).error = "EvmError"
        /\ Returned(d, "transact")
        /\ ~Result(d).ok
        /\ Result(d).error = "ChannelClosed"


(***************************************************************************)
(* C18                                                                     *)
(***************************************************************************)

\* the import or import_offline call of c has returned because the receipt
\* of the transaction at position local[c].idx is missing
MissingReceipt(c) ==
    /\ local[c].op \in {"import", "import_offline"}
    /\ pc[c] = "done"
    /\ ~Result(c).ok
    /\ Result(c).error = "MissingReceipt"

\* C18: an import or import_offline that has returned for a missing receipt
\* stopped at the transaction whose hash is not in the receipts map: only the
\* transactions before it were ever sent to the EVM, and no task of the call
\* is queued, being executed or waiting to be read.
C18_MissingReceiptStopsBeforeEvm ==
    \A c \in Callers : MissingReceipt(c) =>
        LET block == Unwrap(local[c].external_block)
        IN /\ local[c].idx \in DOMAIN block.transactions
           /\ block.transactions[local[c].idx].hash \notin DOMAIN local[c].receipts
           /\ local[c].sent = local[c].idx - 1
           /\ \A task \in TasksInFlight : task.caller /= c
           /\ reply[c] = None

\* an import of a block of two transactions has returned because the
\* receipt of the first is missing
C18_Witness ==
    \E c \in Callers :
        /\ MissingReceipt(c)
        /\ local[c].op = "import"
        /\ local[c].idx = 1
        /\ Len(Unwrap(local[c].external_block).transactions) = 2


(***************************************************************************)
(* C19                                                                     *)
(***************************************************************************)

\* the import call of c has returned an error at a transaction after the
\* first of its external block
ImportFailedAfterFirst(c) ==
    /\ local[c].op = "import"
    /\ pc[c] = "done"
    /\ ~Result(c).ok
    /\ local[c].idx > 1

\* C19: when import has failed at a transaction after the first, no block of
\* permanent storage holds a transaction of that external block.
C19_FailedImportCommitsNothing ==
    \A c \in Callers : ImportFailedAfterFirst(c) =>
        LET block == Unwrap(local[c].external_block)
        IN \A i \in DOMAIN block.transactions :
              BlocksWith(block.transactions[i].hash) = {}


(***************************************************************************)
(* C20                                                                     *)
(***************************************************************************)

\* caller c calls reset_temp in this step
ResetTempStep(c) ==
    /\ calls' = calls + 1
    /\ local'[c].op = "reset_temp"
    /\ local'[c].result = RetOk(calls')

\* C20: reset_temp leaves temporary storage empty, whatever it held and
\* whether or not a commit has just emptied it; a second reset changes
\* nothing more; and reset_temp leaves permanent storage as it was.
C20_ResetTempIdempotent ==
    [][\A c \in Callers : ResetTempStep(c) =>
        /\ temp' = EmptyTemp
        /\ TempReset(temp') = temp'
        /\ TempReset(TempReset(temp)) = TempReset(temp)
        /\ perm' = perm]_vars

\* a block was committed, which reset temporary storage, and reset_temp was
\* called after it
C20_Witness ==
    \E c \in Callers :
        /\ Returned(c, "reset_temp")
        /\ Result(c).value > 1
        /\ Len(perm.blocks) > 1
        /\ temp = EmptyTemp


(***************************************************************************)
(* C21                                                                     *)
(***************************************************************************)

\* caller c has mined a block and its storage.commit has not returned yet
MinedNotCommitted(c) ==
    /\ local[c].op \in {"transact", "import", "mine_empty_block"}
    /\ pc[c] \in {"save_block", "reset_temp"}

\* C21: from the mining of a block until storage.commit of that block has
\* returned, the caller that mined it holds the miner lock, in transact,
\* import and mine_empty_block.
C21_MinerLockHeldUntilCommit ==
    \A c \in Callers : MinedNotCommitted(c) => miner_lock = Some(c)


(***************************************************************************)
(* C22                                                                     *)
(***************************************************************************)

\* caller c calls remove_executions_before in this step
RemoveExecutionsBeforeStep(c) ==
    /\ calls' = calls + 1
    /\ local'[c].op = "remove_executions_before"
    /\ local'[c].result = RetOk(calls')

\* C22: remove_executions_before(index), for an index within the pending
\* list, leaves the list without its first index executions, the others in
\* their order.
C22_RemovesFirstIndex ==
    [][\A c \in Callers : RemoveExecutionsBeforeStep(c) =>
        temp'.tx_executions =
            SubSeq(temp.tx_executions, local'[c].idx + 1, Len(temp.tx_executions))]_vars


(***************************************************************************)
(* C23                                                                     *)
(***************************************************************************)

\* the fields of an account that an execution may set
MergedFields == {"nonce", "balance", "bytecode"} \cup SlotIndexes

\* the delta the changes of an execution carry for a field of an address:
\* Some(value) when it is present
Delta(changes, address, field) ==
    IF address \notin DOMAIN changes THEN None
    ELSE LET change == changes[address]
         IN IF field = "nonce" THEN Take(change.nonce)
            ELSE IF field = "balance" THEN Take(change.balance)
            ELSE IF field = "bytecode" THEN Take(change.bytecode)
            ELSE IF field \in DOMAIN change.slots THEN Take(change.slots[field])
            ELSE None

\* the positions of the pending executions with a present delta for the field
Writers(t, address, field) ==
    {i \in DOMAIN t.tx_executions :
        IsSome(Delta(t.tx_executions[i].execution.changes, address, field))}

\* the value temporary storage holds for the field: Some(value), or None for
\* a slot it does not hold
Held(t, address, field) ==
    LET account == t.accounts[address]
    IN IF field = "nonce" THEN Some(account.info.nonce)
       ELSE IF field = "balance" THEN Some(account.info.balance)
       ELSE IF field = "bytecode" THEN Some(account.info.bytecode)
       ELSE IF field \in DOMAIN account.slots THEN Some(account.slots[field].value)
       ELSE None

\* the value of a field no execution has written: that of a new account
Unwritten(address, field) ==
    IF field = "nonce" THEN Some(NewEmptyAccount(address).nonce)
    ELSE IF field = "balance" THEN Some(NewEmptyAccount(address).balance)
    ELSE IF field = "bytecode" THEN Some(NewEmptyAccount(address).bytecode)
    ELSE None

\* the field holds the delta of its last writer, or is unwritten
LastWriterHeld(t, address, field) ==
    LET writers == Writers(t, address, field)
    IN IF writers = {} THEN Held(t, address, field) = Unwritten(address, field)
       ELSE LET last == CHOOSE i \in writers : \A j \in writers : j <= i
            IN Held(t, address, field) =
                  Delta(t.tx_executions[last].execution.changes, address, field)

\* C23: after any sequence of saved executions, each of nonce, balance,
\* bytecode and each slot of an address in temporary storage holds the value
\* of the last saved execution that carried a present delta for it.
C23_LastWriterPerField ==
    \A address \in DOMAIN temp.accounts : \A field \in MergedFields :
        LastWriterHeld(temp, address, field)


(***************************************************************************)
(* C24                                                                     *)
(***************************************************************************)

\* temporary storage holds the execution of the transaction among its
\* pending executions
SavedInTemp(tx) ==
    \E j \in DOMAIN temp.tx_executions : temp.tx_executions[j].input.hash = tx.hash

\* the execution changed the contract's slot (a transaction the contract's
\* own address signs changes its nonce only)
WritesSlot(execution) == SlotIdx \in DOMAIN execution.changes[Contract].slots

\* the value the execution found in the contract's slot when it started, and
\* the one it left there
SlotOriginal(execution) == execution.changes[Contract].slots[SlotIdx].original
SlotModified(execution) == execution.changes[Contract].slots[SlotIdx].modified

\* the positions before i of the executions that changed the slot
SlotWriters(executions, i) ==
    {j \in 1..(i - 1) : WritesSlot(executions[j].execution)}

\* C24: while transaction idx of an import_offline is at the EVM, the changes
\* of the transactions 1..idx-1 of the block are saved in temporary storage;
\* every verified transaction has read, as the original value of the slot,
\* the value the last transaction of the block before it wrote there; and the
\* changes of a transaction that mismatched its receipt or failed are not
\* saved.
C24_OverlaySeededInOrder ==
    \A c \in Callers : local[c].op = "import_offline" =>
        LET block == Unwrap(local[c].external_block)
            executions == local[c].executions
        IN /\ pc[c] = "io_evm" =>
                \A i \in 1..(local[c].idx - 1) : SavedInTemp(block.transactions[i])
           /\ \A i \in 2..Len(executions) :
                (WritesSlot(executions[i].execution) /\ SlotWriters(executions, i) /= {}) =>
                    LET writers == SlotWriters(executions, i)
                        last == CHOOSE j \in writers : \A k \in writers : k <= j
                    IN SlotOriginal(executions[i].execution)
                          = SlotModified(executions[last].execution)
           /\ (pc[c] = "done" /\ ~Result(c).ok
                 /\ Result(c).error \in {"ReceiptMismatch", "EvmError"}) =>
                ~SavedInTemp(block.transactions[local[c].idx])

\* the second transaction of an import_offline was verified after it read the
\* value the first one wrote
C24_Witness ==
    \E c \in Callers :
        /\ local[c].op = "import_offline"
        /\ Len(local[c].executions) = 2
        /\ WritesSlot(local[c].executions[2].execution)
        /\ SlotOriginal(local[c].executions[2].execution)
              = Some(local[c].executions[1].input.input)


(***************************************************************************)
(* C25                                                                     *)
(***************************************************************************)

\* the transact call of c reads its execution in this step and
\* check_conflicts reports a conflict for it
PreMineConflict(c) ==
    /\ local[c].op = "transact"
    /\ pc[c] = "t_evm"
    /\ IsSome(reply[c])
    /\ reply'[c] = None
    /\ Unwrap(reply[c]).ok
    /\ IsSome(CheckConflicts(temp, Unwrap(reply[c]).execution))

\* the commit of the transact call of c returns an error in this step
CommitReturnsErr(c, error) ==
    /\ local[c].op = "transact"
    /\ pc[c] = "reset_temp"
    /\ pc'[c] /= "reset_temp"
    /\ ~CommitResult(c).ok
    /\ CommitResult(c).error = error

\* the loop of c runs again from the start: the transaction is sent to the
\* EVM anew and nothing of the last round is kept, mined or saved
RunsAgain(c) ==
    /\ pc'[c] = "t_evm"
    /\ evm_queue' = Append(evm_queue,
                           EvmTask(c, EvmInputFromTransaction(Unwrap(local[c].tx))))
    /\ local'[c].execution = None
    /\ local'[c].block = None
    /\ local'[c].result = None
    /\ local'[c].increments = local[c].increments
    /\ perm' = perm

\* C25: a transact for whose execution check_conflicts reports a conflict
\* does not mine it but runs its loop again; a commit that returns Conflict
\* runs the loop again too; a commit that returns another error ends the call
\* with that error; and no transact returns a conflict as its error.
C25_ConflictsAreRetried ==
    [][\A c \in Callers :
        /\ PreMineConflict(c) => RunsAgain(c)
        /\ CommitReturnsErr(c, "Conflict") => RunsAgain(c)
        /\ CommitReturnsErr(c, "Other") =>
              /\ pc'[c] = "done"
              /\ local'[c].result = RetErr("Other")
        /\ (local'[c].op = "transact" /\ pc'[c] = "done") =>
              \/ Unwrap(local'[c].result).ok
              \/ Unwrap(local'[c].result).error /= "Conflict"]_vars

\* a transact has received its execution, and temporary storage has changed
\* under it: check_conflicts is about to report a conflict
C25_Witness ==
    \E c \in Callers :
        /\ local[c].op = "transact"
        /\ pc[c] = "t_evm"
        /\ IsSome(reply[c])
        /\ Unwrap(reply[c]).ok
        /\ IsSome(CheckConflicts(temp, Unwrap(reply[c]).execution))


(***************************************************************************)
(* C26                                                                     *)
(***************************************************************************)

\* worker w finishes, in this step, a task whose caller was cancelled
FinishesCancelled(w) ==
    /\ Busy(w)
    /\ ~ReceiverAlive(Unwrap(worker[w]))
    /\ worker'[w] /= worker[w]

\* C26: a worker that finishes the task of a cancelled caller drops the
\* result, changes nothing of any call and is free for the next task of the
\* queue; and no worker thread ends while the queue is open.
C26_CancelledTaskDiscarded ==
    [][/\ \A w \in Workers :
            FinishesCancelled(w) =>
                /\ worker'[w] = None
                /\ UNCHANGED <<reply, pc, local, evm_queue, temp, perm>>
       /\ \A w \in Workers : ~IsDead(w)']_vars

\* a call was cancelled while its task was still to be executed; that task
\* has been executed and dropped since, and a later call of the pool has
\* its execution
C26_Witness ==
    \E c, d \in Callers :
        /\ local[c].op = "cancelled"
        /\ local[c].sent = 1
        /\ \A task \in TasksInFlight : task.input.data /= Unwrap(local[c].tx).input
        /\ local[d].op = "transact"
        /\ IsSome(local[d].execution)


(***************************************************************************)
(* C27                                                                     *)
(***************************************************************************)

\* caller c is between the mining of a block and the point where its guard
\* of the miner lock is dropped
InCriticalSection(c) ==
    \/ local[c].op = "transact" /\ pc[c] \in {"save_block", "reset_temp"}
    \/ local[c].op = "mine_empty_block" /\ pc[c] \in {"save_block", "reset_temp", "me_notify"}

\* C27: the miner lock is held only by a call that is between its mining and
\* the end of its commit (of its notification, for mine_empty_block): a
\* transact that runs its loop again, has returned, or is past its commit
\* does not hold it, so a call that waits for the lock waits for a call that
\* is still to release it.
C27_MinerLockReleased ==
    \A c \in Callers : miner_lock = Some(c) => InCriticalSection(c)

\* a transact runs its loop again after a commit conflict, the miner lock is
\* free, and the other caller's transact has returned
C27_Witness ==
    \E c, d \in Callers :
        /\ local[c].op = "transact"
        /\ pc[c] = "t_evm"
        /\ local[c].increments > 0
        /\ miner_lock = None
        /\ Returned(d, "transact")


(***************************************************************************)
(* C28                                                                     *)
(***************************************************************************)

\* the positions in block_notifier at which block was sent
Notified(block) == {i \in DOMAIN block_notifier : block_notifier[i] = block}

\* block is one of the blocks of permanent storage
Committed(block) == \E i \in DOMAIN perm.blocks : perm.blocks[i] = block

\* the block of the current round of caller c's transact
RoundBlock(c) == Unwrap(local[c].block)

\* C28: a block that transact mined is sent to the block notifier only when
\* its commit has returned Ok, and once: every notified block with a
\* transaction is in permanent storage and was sent once; the block of a
\* transact is not sent before its commit was matched as Ok, was sent once
\* when the transact is at its logs or has returned Ok, and was not sent at
\* all when its commit failed; every log sent to the log notifier is a log
\* of a block that was sent to the block notifier before.
C28_NotifiedAfterCommit ==
    /\ \A i \in DOMAIN block_notifier :
          block_notifier[i].transactions /= <<>> =>
              /\ Committed(block_notifier[i])
              /\ Notified(block_notifier[i]) = {i}
    /\ \A c \in Callers :
          (local[c].op = "transact" /\ IsSome(local[c].block)) =>
              /\ pc[c] \in {"save_block", "reset_temp", "t_notify_block"} =>
                    Notified(RoundBlock(c)) = {}
              /\ pc[c] = "t_notify_block" =>
                    CommitResult(c).ok /\ Committed(RoundBlock(c))
              /\ (pc[c] = "t_notify_logs" \/ (pc[c] = "done" /\ Result(c).ok)) =>
                    /\ Cardinality(Notified(RoundBlock(c))) = 1
                    /\ CommitResult(c).ok
              /\ (pc[c] = "done" /\ ~Result(c).ok) => Notified(RoundBlock(c)) = {}
    /\ \A k \in DOMAIN log_notifier :
          \E i \in DOMAIN block_notifier :
              /\ block_notifier[i].number = log_notifier[k].block_number
              /\ \E j \in DOMAIN block_notifier[i].transactions :
                    block_notifier[i].transactions[j].input.hash
                        = log_notifier[k].transaction_hash

\* a transact has returned Ok with its block and its logs sent, and the
\* other caller's transact has returned the error of its commit with its
\* block sent nowhere
C28_Witness ==
    \E c, d \in Callers :
        /\ Returned(c, "transact") /\ Result(c).ok
        /\ Notified(RoundBlock(c)) /= {}
        /\ log_notifier /= <<>>
        /\ Returned(d, "transact") /\ ~Result(d).ok
        /\ IsSome(local[d].block) /\ ~Committed(RoundBlock(d))


(***************************************************************************)
(* C29                                                                     *)
(***************************************************************************)

\* read_current_block_number before caller c's import_offline: the block to
\* import is the one after it
NumberBeforeImport(c) == Unwrap(local[c].external_block).number - 1

\* C29: when import_offline has returned an error, whatever the error,
\* read_current_block_number is what it was before the call.
C29_FailedImportKeepsNumber ==
    (Returned(Importer, "import_offline") /\ ~Result(Importer).ok) =>
        ReadCurrentBlockNumber(perm) = NumberBeforeImport(Importer)


(***************************************************************************)
(* C30                                                                     *)
(***************************************************************************)

\* the account permanent storage holds for the address now, or the default
\* one when it holds none
PermAccount(p, address) ==
    OrElse(PermReadAccount(p, address, Present), NewEmptyAccount(address))

\* the step is a save_account_changes of an execution whose change for the
\* address carries slot deltas only
SavesSlotsOnly(address) ==
    /\ calls' = calls + 1
    /\ local'[Importer].op = "save_account_changes"
    /\ Len(temp'.tx_executions) = Len(temp.tx_executions) + 1
    /\ LET changes == temp'.tx_executions[Len(temp'.tx_executions)].execution.changes
       IN /\ address \in DOMAIN changes
          /\ changes[address].nonce = NoChange
          /\ changes[address].balance = NoChange
          /\ changes[address].bytecode = NoChange
          /\ changes[address].slots /= <<>>

\* C30: after a save_account_changes whose change for an address carries
\* slot deltas only, read_account of the facade for that address at the
\* present returns the nonce, balance and bytecode that permanent storage
\* holds for it.
C30_SlotsOnlyDoesNotShadow ==
    [][\A address \in Addresses :
          SavesSlotsOnly(address) =>
              LET read == ReadAccount(temp', perm', address, Present)
                  held == PermAccount(perm', address)
              IN /\ read.nonce = held.nonce
                 /\ read.balance = held.balance
                 /\ read.bytecode = held.bytecode]_vars


(***************************************************************************)
(* C31                                                                     *)
(***************************************************************************)

\* caller c's transact is in a round of its loop that holds an execution
HoldsExecution(c) == local[c].op = "transact" /\ IsSome(local[c].execution)

\* the step ends a round of caller c's transact with a conflict: the one
\* check_conflicts reports, or the one commit returns
RoundConflicts(c) ==
    \/ PreMineConflict(c)
    \/ /\ pc[c] = "reset_temp" /\ local[c].op = "transact"
       /\ pc'[c] /= "reset_temp"
       /\ CommitRetried(CommitResult(c))

\* the execution of the transaction with the hash in the block
ExecutionIn(block, hash) ==
    {block.transactions[j].execution :
        j \in {k \in DOMAIN block.transactions : block.transactions[k].input.hash = hash}}

\* C31: the execution transact returns is that of the last round of its
\* loop, the one in the block that was committed and sent. On every step: a
\* transact goes on to mine only with the execution the EVM has just
\* replied; the block it mines holds that execution; a round that ends with
\* a conflict leaves the call with no execution and no block, and its block
\* is neither in permanent storage nor sent; and a transact that returns Ok
\* returns the execution it went to mine with last, which is the execution
\* of its transaction in the one committed block that holds it and in the
\* one block sent for it.
C31_ReturnsFinalExecution ==
    [][\A c \in Callers :
          /\ (pc[c] /= "t_mine" /\ pc'[c] = "t_mine" /\ local'[c].op = "transact") =>
                /\ pc[c] = "t_evm" /\ IsSome(reply[c]) /\ Unwrap(reply[c]).ok
                /\ local'[c].execution = Some(Unwrap(reply[c]).execution)
          /\ (pc[c] = "t_mine" /\ pc'[c] = "save_block" /\ local[c].op = "transact") =>
                /\ local'[c].execution = local[c].execution
                /\ ExecutionIn(Unwrap(local'[c].block), Unwrap(local[c].tx).hash)
                      = {Unwrap(local[c].execution)}
          /\ RoundConflicts(c) =>
                /\ local'[c].execution = None /\ local'[c].block = None
                /\ IsSome(local[c].block) =>
                      /\ ~\E i \in DOMAIN perm'.blocks : perm'.blocks[i] = Unwrap(local[c].block)
                      /\ ~\E i \in DOMAIN block_notifier' :
                            block_notifier'[i] = Unwrap(local[c].block)
                /\ perm' = perm /\ block_notifier' = block_notifier
                /\ log_notifier' = log_notifier
          /\ (pc[c] = "t_notify_logs" /\ pc'[c] = "done") =>
                LET hash == Unwrap(local[c].tx).hash
                    execution == Unwrap(local[c].execution)
                IN /\ local'[c].result = RetOk(execution)
                   /\ \E i \in DOMAIN perm.blocks :
                         /\ BlocksWith(hash) = {i}
                         /\ ExecutionIn(perm.blocks[i], hash) = {execution}
                   /\ \E i \in DOMAIN block_notifier :
                         /\ \A j \in DOMAIN block_notifier :
                               ExecutionIn(block_notifier[j], hash) /= {} => j = i
                         /\ ExecutionIn(block_notifier[i], hash) = {execution}
                         /\ block_notifier[i] = Unwrap(local[c].block)]_vars

\* a transact has returned the execution of its second round, after the
\* commit of its first round met a conflict; that execution differs from
\* the one the other caller's transact returned
C31_Witness ==
    \E c, d \in Callers :
        /\ Returned(c, "transact") /\ Result(c).ok
        /\ local[c].increments > 1
        /\ HoldsExecution(c) /\ Result(c).value = Unwrap(local[c].execution)
        /\ Returned(d, "transact") /\ Result(d).ok
        /\ Result(d).value /= Result(c).value

=============================================================================
